---- MODULE Spec2Model ----
(***************************************************************************)
(* Model of the Topup CXO Assistant query pipeline:                        *)
(*   - tools/cache_tool.py   : InMemoryLRUCache (OrderedDict + TTL)        *)
(*   - agents/guardrail.py   : validate and its four rules                 *)
(*   - agents/__init__.py    : the LangGraph nodes, edges and run_query    *)
(* Optional values are modelled as sequences: <<>> is None, <<x>> is x.    *)
(***************************************************************************)
EXTENDS Integers, Sequences, FiniteSets, TLC

VARIABLES
    now,        \* time.time(), read by CacheEntry.__init__ and is_expired
    cache,      \* InMemoryLRUCache._cache: entries in OrderedDict order (first = LRU)
    lastOp,     \* the last cache API call made directly by a client, with its result
    lastSet,    \* history: per key, the time and TTL of the last set (<<>> if never set)
    stamp,      \* history: per key, the logical time of its last get hit or set
    opCount,    \* history: logical clock of cache API calls
    pc,         \* per run_query call: the graph node about to run, or where the call stands
    st,         \* per run_query call: the GraphState of the current attempt (final_state at the end)
    attempt,    \* per run_query call: the local variable attempt
    max_retries,\* per run_query call: the argument max_retries
    ghost,      \* history per run_query call: collaborators invoked, times, cache results
    vcall,      \* the arguments (plan, sql) of a direct call of guardrail.validate
    vresult,    \* the ValidationResult that call returned (<<>> before it returns)
    kcall,      \* the constructor arguments of two Plans whose cache_key is taken
    kresult,    \* the two fingerprints (<<>> before they are computed)
    cache_instance, \* cache_tool._cache_instance: 0 for None, else the instance
    objs,       \* the InMemoryLRUCache instances created: _cache and holder of _lock
    th,         \* per thread: its position in a cache_tool call and its locals
    calls       \* history: number of calls made by the threads

cacheVars == <<lastOp, lastSet, stamp, opCount>>
runVars == <<pc, st, attempt, max_retries, ghost>>
guardVars == <<vcall, vresult>>
keyVars == <<kcall, kresult>>
threadVars == <<cache_instance, objs, th, calls>>
vars == <<now, cache, lastOp, lastSet, stamp, opCount,
          pc, st, attempt, max_retries, ghost, vcall, vresult,
          kcall, kresult, cache_instance, objs, th, calls>>

None == <<>>
Some(x) == <<x>>

(***************************************************************************)
(* Bounds                                                                  *)
(***************************************************************************)
MaxSize == 2        \* max_size of the cache instance under analysis
MaxClock == 2       \* last clock reading of the cache API specification
MaxOps == 4         \* number of cache API calls explored
MaxRetries == 2     \* largest max_retries argument explored (0..MaxRetries)
MaxRows == 1        \* largest number of rows the executor returns
MaxTime == 700      \* last clock reading of the pipeline specification
MaxTextLen == 4     \* longest query text enumerated over the separator alphabet
TickStep == 700     \* clock advance of one Tick of the pipeline specification

ApiKeys == {"k1", "k2", "k3"}
ApiTTLs == {-1, 0, 1}
DataFrame(i) == [kind |-> "DataFrame", id |-> i]
Pickled(i) == [kind |-> "bytes", id |-> i]
ApiValues == {[data |-> "a"], [df |-> DataFrame(1)]}

(***************************************************************************)
(* tools/cache_tool.py                                                     *)
(***************************************************************************)
\* CacheEntry.__init__: created_at = time.time(); expires_at = created_at + ttl
CacheEntry(key, value, ttl, t) ==
    [key |-> key, value |-> value, created_at |-> t, expires_at |-> t + ttl]

\* variant of is_expired that lets an entry live one clock unit too long
is_expired_lenient(entry, t) == t > entry.expires_at + 1

\* CacheEntry.is_expired: time.time() > self.expires_at
is_expired(entry, t) == t > entry.expires_at

\* pickle.dumps of the 'df' member when it is a DataFrame (set, lines 145-147)
SerializeValue(value) ==
    IF "df" \in DOMAIN value /\ value.df.kind = "DataFrame"
    THEN [value EXCEPT !.df = Pickled(value.df.id)]
    ELSE value

\* pickle.loads of the 'df' member when it is bytes (get, lines 120-122)
DeserializeValue(value) ==
    IF "df" \in DOMAIN value /\ value.df.kind = "bytes"
    THEN [value EXCEPT !.df = DataFrame(value.df.id)]
    ELSE value

CacheKeys(c) == {c[i].key : i \in 1..Len(c)}

\* position of key in the OrderedDict (0 when absent)
IndexOf(c, key) ==
    IF key \in CacheKeys(c) THEN CHOOSE i \in 1..Len(c) : c[i].key = key ELSE 0

\* variant of DelKey that leaves the entry where it is
DelKey_noop(c, key) == c

\* del self._cache[key]
DelKey(c, key) == SelectSeq(c, LAMBDA e : e.key # key)

\* self._cache.move_to_end(key)
move_to_end(c, key) == Append(DelKey(c, key), c[IndexOf(c, key)])

\* variant of popitem_first: popitem() with its default last=True
popitem_last(c) == SubSeq(c, 1, Len(c) - 1)

\* self._cache.popitem(last=False)
popitem_first(c) == Tail(c)

\* InMemoryLRUCache.get: the value returned
GetResult(c, key, t) ==
    IF key \notin CacheKeys(c) THEN None
    ELSE IF is_expired(c[IndexOf(c, key)], t) THEN None
    ELSE Some(DeserializeValue(c[IndexOf(c, key)].value))

\* variant of GetCache in which a hit also restarts the TTL of the entry
GetCache_sliding_ttl(c, key, t) ==
    IF key \notin CacheKeys(c) THEN c
    ELSE IF t > c[IndexOf(c, key)].expires_at THEN DelKey(c, key)
    ELSE LET e == c[IndexOf(c, key)]
         IN  Append(DelKey(c, key),
                    [e EXCEPT !.created_at = t,
                              !.expires_at = t + (e.expires_at - e.created_at)])

\* InMemoryLRUCache.get: the cache it leaves
GetCache(c, key, t) ==
    IF key \notin CacheKeys(c) THEN c
    ELSE IF is_expired(c[IndexOf(c, key)], t) THEN DelKey(c, key)
    ELSE move_to_end(c, key)

\* variant of SetCache that overwrites an existing key where it stands
SetCache_in_place(c, key, value, ttl, t) ==
    LET entry == CacheEntry(key, SerializeValue(value), ttl, t)
        added == IF key \in CacheKeys(c)
                 THEN [i \in 1..Len(c) |-> IF c[i].key = key THEN entry ELSE c[i]]
                 ELSE Append(c, entry)
    IN  IF Len(added) > MaxSize THEN Tail(added) ELSE added

\* InMemoryLRUCache.set: the cache it leaves
SetCache(c, key, value, ttl, t) ==
    LET entry == CacheEntry(key, SerializeValue(value), ttl, t)
        added == Append(IF key \in CacheKeys(c) THEN DelKey(c, key) ELSE c, entry)
    IN  IF Len(added) > MaxSize THEN popitem_first(added) ELSE added

\* InMemoryLRUCache.clear
ClearCache(c) == <<>>

\* InMemoryLRUCache.size
SizeResult(c) == Len(c)

\* variant of CleanupCache that also drops the entries expiring at this very reading
CleanupCache_at_deadline(c, t) == SelectSeq(c, LAMBDA e : ~(t >= e.expires_at))

\* InMemoryLRUCache.cleanup_expired: the cache it leaves and the count returned
CleanupCache(c, t) == SelectSeq(c, LAMBDA e : ~is_expired(e, t))
CleanupResult(c, t) == Cardinality({i \in 1..Len(c) : is_expired(c[i], t)})

(***************************************************************************)
(* agents/guardrail.py                                                     *)
(* Text is a sequence of one-character strings.                            *)
(***************************************************************************)
LowerAlpha == <<"a","b","c","d","e","f","g","h","i","j","k","l","m",
                "n","o","p","q","r","s","t","u","v","w","x","y","z">>
UpperAlpha == <<"A","B","C","D","E","F","G","H","I","J","K","L","M",
                "N","O","P","Q","R","S","T","U","V","W","X","Y","Z">>
Digits == {"0","1","2","3","4","5","6","7","8","9"}
Whitespace == {" ", "\n", "\t"}

\* \w of the re module
IsWordChar(c) ==
    \/ \E i \in 1..26 : c = LowerAlpha[i] \/ c = UpperAlpha[i]
    \/ c \in Digits
    \/ c = "_"

\* str.upper
UpperChar(c) ==
    IF \E i \in 1..26 : c = LowerAlpha[i]
    THEN UpperAlpha[CHOOSE i \in 1..26 : c = LowerAlpha[i]]
    ELSE c
Upper(text) == [i \in 1..Len(text) |-> UpperChar(text[i])]

\* str.strip
RECURSIVE LStrip(_)
LStrip(text) ==
    IF text # <<>> /\ Head(text) \in Whitespace THEN LStrip(Tail(text)) ELSE text
RECURSIVE RStrip(_)
RStrip(text) ==
    IF text # <<>> /\ text[Len(text)] \in Whitespace
    THEN RStrip(SubSeq(text, 1, Len(text) - 1)) ELSE text
Strip(text) == RStrip(LStrip(text))

ALLOWED_SEGMENTS ==
    [channel |-> {"OMB", "Email", "Search", "D2LC", "DM", "LT",
                  "Experian", "Karma", "Small Partners"},
     grade |-> {"P1", "P2", "P3", "P4", "P5", "P6"},
     prod_type |-> {"Prime", "NP", "D2P"},
     repeat_type |-> {"Repeat", "New"},
     term |-> {36, 48, 60, 72, 84},
     cr_fico_band |-> {"<640", "640-699", "700-759", "760+"},
     purpose |-> {"debt_consolidation", "home_improvement", "major_purchase",
                  "medical", "car", "other"}]

DANGEROUS_KEYWORDS ==
    << <<"I","N","S","E","R","T">>, <<"U","P","D","A","T","E">>,
       <<"D","E","L","E","T","E">>, <<"D","R","O","P">>,
       <<"A","L","T","E","R">>, <<"C","R","E","A","T","E">>,
       <<"T","R","U","N","C","A","T","E">>, <<"R","E","P","L","A","C","E">>,
       <<"M","E","R","G","E">> >>

MAX_TIME_WINDOW_DAYS == 365

ValidationResult(is_valid, error_message, security_event) ==
    [is_valid |-> is_valid, error_message |-> error_message,
     security_event |-> security_event]
Valid == ValidationResult(TRUE, None, FALSE)

\* variant of WordMatchAt without the word boundaries
WordMatchAt_substring(text, keyword, i) ==
    /\ i + Len(keyword) - 1 <= Len(text)
    /\ SubSeq(text, i, i + Len(keyword) - 1) = keyword

\* re.search(r'\b' + keyword + r'\b', text)
WordMatchAt(text, keyword, i) ==
    /\ i + Len(keyword) - 1 <= Len(text)
    /\ SubSeq(text, i, i + Len(keyword) - 1) = keyword
    /\ (i = 1 \/ ~IsWordChar(text[i - 1]))
    /\ (i + Len(keyword) - 1 = Len(text) \/ ~IsWordChar(text[i + Len(keyword)]))
WordSearch(text, keyword) == \E i \in 1..Len(text) : WordMatchAt(text, keyword, i)

_check_sql_safety(sql) ==
    LET hits == {n \in 1..Len(DANGEROUS_KEYWORDS) :
                    WordSearch(Upper(sql), DANGEROUS_KEYWORDS[n])}
    IN  IF hits = {} THEN Valid
        ELSE LET first == CHOOSE n \in hits : \A m \in hits : n <= m
             IN  ValidationResult(FALSE,
                    Some(<<"SQL query contains forbidden keyword">>
                            \o DANGEROUS_KEYWORDS[first]), TRUE)

\* variant of _check_multiple_statements that drops every trailing separator
\* (rstrip(';')) instead of one
RECURSIVE RStripSeparators(_)
RStripSeparators(text) ==
    IF text # <<>> /\ text[Len(text)] = ";"
    THEN RStripSeparators(SubSeq(text, 1, Len(text) - 1)) ELSE text
_check_multiple_statements_rstrip(sql) ==
    LET body == RStripSeparators(Strip(sql))
    IN  IF \E i \in 1..Len(body) : body[i] = ";"
        THEN ValidationResult(FALSE,
                Some(<<"SQL query contains multiple statements (semicolons not allowed)">>),
                TRUE)
        ELSE Valid

_check_multiple_statements(sql) ==
    LET stripped == Strip(sql)
        body == IF stripped # <<>> /\ stripped[Len(stripped)] = ";"
                THEN SubSeq(stripped, 1, Len(stripped) - 1) ELSE stripped
    IN  IF \E i \in 1..Len(body) : body[i] = ";"
        THEN ValidationResult(FALSE,
                Some(<<"SQL query contains multiple statements (semicolons not allowed)">>),
                TRUE)
        ELSE Valid

\* variant of TruthyStr that tests for None only
TruthyStr_not_none(o) == o # None

\* truth value of an Optional[str] / Optional[int] member
TruthyStr(o) == o # None /\ o[1] # ""
TruthyInt(o) == o # None /\ o[1] # 0

\* variant of _validate_segment_filters without the "ALL" exemption
_validate_segment_filters_no_sentinel(plan) ==
    LET seg == plan.segments
        order == <<"channel", "grade", "prod_type", "repeat_type", "term",
                   "cr_fico_band", "purpose">>
        Populated(f) == IF f = "term" THEN TruthyInt(seg[f]) ELSE TruthyStr(seg[f])
        bad == {i \in 1..7 : Populated(order[i])
                                /\ seg[order[i]][1] \notin ALLOWED_SEGMENTS[order[i]]}
        first == CHOOSE i \in bad : \A j \in bad : i <= j
    IN  IF bad = {} THEN Valid
        ELSE ValidationResult(FALSE,
                Some(<<"Invalid segment value", order[first],
                       IF order[first] = "term" THEN ToString(seg.term[1])
                       ELSE seg[order[first]][1]>>), FALSE)

_validate_segment_filters(plan) ==
    LET seg == plan.segments
        Bad(field, value) ==
            ValidationResult(FALSE, Some(<<"Invalid segment value", field, value>>), FALSE)
    IN  IF TruthyStr(seg.channel) /\ seg.channel[1] # "ALL"
            /\ seg.channel[1] \notin ALLOWED_SEGMENTS.channel
        THEN Bad("channel", seg.channel[1])
        ELSE IF TruthyStr(seg.grade) /\ seg.grade[1] # "ALL"
            /\ seg.grade[1] \notin ALLOWED_SEGMENTS.grade
        THEN Bad("grade", seg.grade[1])
        ELSE IF TruthyStr(seg.prod_type) /\ seg.prod_type[1] # "ALL"
            /\ seg.prod_type[1] \notin ALLOWED_SEGMENTS.prod_type
        THEN Bad("prod_type", seg.prod_type[1])
        ELSE IF TruthyStr(seg.repeat_type)
            /\ seg.repeat_type[1] \notin ALLOWED_SEGMENTS.repeat_type
        THEN Bad("repeat_type", seg.repeat_type[1])
        ELSE IF TruthyInt(seg.term) /\ seg.term[1] \notin ALLOWED_SEGMENTS.term
        THEN Bad("term", ToString(seg.term[1]))
        ELSE IF TruthyStr(seg.cr_fico_band)
            /\ seg.cr_fico_band[1] \notin ALLOWED_SEGMENTS.cr_fico_band
        THEN Bad("cr_fico_band", seg.cr_fico_band[1])
        ELSE IF TruthyStr(seg.purpose)
            /\ seg.purpose[1] \notin ALLOWED_SEGMENTS.purpose
        THEN Bad("purpose", seg.purpose[1])
        ELSE Valid

\* variant of WindowDays whose default is beyond the ceiling
WindowDays_default_beyond(window) ==
    CASE window = "last_7d" -> 7
      [] window = "last_full_week" -> 7
      [] window = "last_30d" -> 30
      [] window = "last_full_month" -> 31
      [] window = "last_3_full_months" -> 93
      [] OTHER -> MAX_TIME_WINDOW_DAYS + 1

\* window_days.get(plan.window, 30)
WindowDays(window) ==
    CASE window = "last_7d" -> 7
      [] window = "last_full_week" -> 7
      [] window = "last_30d" -> 30
      [] window = "last_full_month" -> 31
      [] window = "last_3_full_months" -> 93
      [] OTHER -> 30

_validate_time_window(plan) ==
    IF WindowDays(plan.window) > MAX_TIME_WINDOW_DAYS
    THEN ValidationResult(FALSE,
            Some(<<"Time window exceeds maximum allowed", plan.window>>), FALSE)
    ELSE Valid

\* variant of validate that applies the plan rules before the text rules
validate_plan_rules_first(plan, sql) ==
    IF ~_validate_segment_filters(plan).is_valid THEN _validate_segment_filters(plan)
    ELSE IF ~_validate_time_window(plan).is_valid THEN _validate_time_window(plan)
    ELSE IF ~_check_sql_safety(sql).is_valid THEN _check_sql_safety(sql)
    ELSE IF ~_check_multiple_statements(sql).is_valid THEN _check_multiple_statements(sql)
    ELSE Valid

\* guardrail.validate(plan, sql): the first failing rule decides
validate(plan, sql) ==
    IF ~_check_sql_safety(sql).is_valid THEN _check_sql_safety(sql)
    ELSE IF ~_check_multiple_statements(sql).is_valid THEN _check_multiple_statements(sql)
    ELSE IF ~_validate_segment_filters(plan).is_valid THEN _validate_segment_filters(plan)
    ELSE IF ~_validate_time_window(plan).is_valid THEN _validate_time_window(plan)
    ELSE Valid

(***************************************************************************)
(* Plans, rendered SQL and artifacts                                       *)
(***************************************************************************)
Runs == {"r1", "r2"}
Intents == {"trend", "explain"}
CACHE_TTL == 600

NoSegments ==
    [channel |-> None, grade |-> None, prod_type |-> None, repeat_type |-> None,
     term |-> None, cr_fico_band |-> None, purpose |-> None]
BasePlan ==
    [intent |-> "trend", table |-> "cps_tb", metric |-> <<"a","m","t">>,
     date_col |-> "issued_d", window |-> "last_30d", granularity |-> "weekly",
     segments |-> NoSegments, chart |-> "line"]
\* a plan every rule accepts
PlanOk == [BasePlan EXCEPT !.segments.channel = Some("Email")]
\* a plan with a channel outside the allowed set
PlanBadSegment == [BasePlan EXCEPT !.segments.channel = Some("Facebook")]
\* a plan whose metric text is "x);drop t"
PlanInjected == [BasePlan EXCEPT !.metric = <<"x",")",";","d","r","o","p"," ","t">>]
Plans == {PlanOk, PlanBadSegment, PlanInjected}

\* the questions asked, and the plan the planner derives from each
Queries == {"weekly trend for Email", "weekly trend for Facebook", "trend of x);drop t"}
PlanFor(user_query) ==
    CASE user_query = "weekly trend for Email" -> PlanOk
      [] user_query = "weekly trend for Facebook" -> PlanBadSegment
      [] OTHER -> PlanInjected

\* _get_metric_expression, default branch: f"SUM({metric})"
_get_metric_expression(metric) == <<"S","U","M","(">> \o metric \o <<")">>

\* the query text sql_tool.run builds from the plan and executes
RenderSQL(plan) ==
    <<"S","E","L","E","C","T"," ">> \o _get_metric_expression(plan.metric)
        \o <<" ","F","R","O","M"," ">> \o <<"t">>

\* variant of cache_key whose serialization leaves the chart hint out
cache_key_without_chart(plan) ==
    <<plan.intent, plan.table, plan.metric, plan.date_col, plan.window,
      plan.granularity, plan.segments.channel, plan.segments.grade,
      plan.segments.prod_type, plan.segments.repeat_type, plan.segments.term,
      plan.segments.cr_fico_band, plan.segments.purpose>>

\* Plan.cache_key(): hash of the canonical serialization of the plan
cache_key(plan) ==
    <<plan.intent, plan.table, plan.metric, plan.date_col, plan.window,
      plan.granularity, plan.segments.channel, plan.segments.grade,
      plan.segments.prod_type, plan.segments.repeat_type, plan.segments.term,
      plan.segments.cr_fico_band, plan.segments.purpose, plan.chart>>

\* Insight(...) objects and Insight.model_dump()
Insight(id) == [kind |-> "Insight", id |-> id]
model_dump(obj) == [kind |-> "dict", id |-> obj.id]
\* Plan.model_dump()
plan_dump(plan) == [kind |-> "dict", fields |-> plan]

\* truth value of a dict or list
TruthyDict(o) == o # None /\ DOMAIN o[1] # {}
\* variant of TruthyRows for a rows object that is truthy when empty
TruthyRows_when_empty(o) == o # None
TruthyRows(o) == o # None /\ o[1].rows > 0
\* dict.get(name)
DictGet(d, name) == IF name \in DOMAIN d THEN d[name] ELSE None

(***************************************************************************)
(* agents/__init__.py: graph nodes                                         *)
(***************************************************************************)
InitialState(user_query) ==
    [user_query |-> user_query, intent |-> None, plan |-> None, sql |-> None, df_dict |-> None,
     chart_spec |-> None, insight |-> None, error |-> None,
     cache_key |-> None, cache_hit |-> FALSE]

RouterOutcomes == {[ok |-> TRUE, intent |-> i] : i \in Intents}
                    \cup {[ok |-> FALSE, intent |-> ""]}
router_node(state, res) ==
    IF res.ok THEN [state EXCEPT !.intent = Some(res.intent)]
    ELSE [state EXCEPT !.error = Some(<<"Intent classification failed">>),
                       !.intent = Some("trend")]

MemoryOutcomes == {"unavailable", "ok", "raise"}
memory_node(state, res) ==
    CASE res = "unavailable" ->
            [state EXCEPT !.insight = Some(Insight("explanation not configured"))]
      [] res = "ok" ->
            [state EXCEPT !.insight = Some(Insight("explanation"))]
      [] res = "raise" ->
            [state EXCEPT !.error = Some(<<"Explanation retrieval failed">>),
                          !.insight = Some(Insight("unable to retrieve explanation"))]

\* planner.make_plan: the plan of the query, or an exception
PlannerOutcomes(user_query) ==
    {[ok |-> TRUE, plan |-> Some(PlanFor(user_query))], [ok |-> FALSE, plan |-> None]}
planner_node(state, res) ==
    IF res.ok
    THEN [state EXCEPT !.plan = res.plan, !.cache_key = Some(cache_key(res.plan[1]))]
    ELSE [state EXCEPT !.error = Some(<<"Query planning failed">>)]

\* variant of cache_check_node that does not take the insight from the bundle
cache_check_node_without_insight(state, cached_result) ==
    IF state.cache_key = None THEN [state EXCEPT !.cache_hit = FALSE]
    ELSE IF cached_result # None /\ DOMAIN cached_result[1] # {}
    THEN [state EXCEPT !.cache_hit = TRUE,
                       !.df_dict = cached_result[1].df_dict,
                       !.chart_spec = cached_result[1].chart_spec]
    ELSE [state EXCEPT !.cache_hit = FALSE]

\* cached_result is the value cache_tool.get returned (None when the node did not ask)
cache_check_node(state, cached_result) ==
    IF state.cache_key = None THEN [state EXCEPT !.cache_hit = FALSE]
    ELSE IF TruthyDict(cached_result)
    THEN [state EXCEPT !.cache_hit = TRUE,
                       !.df_dict = DictGet(cached_result[1], "df_dict"),
                       !.chart_spec = DictGet(cached_result[1], "chart_spec"),
                       !.insight = DictGet(cached_result[1], "insight")]
    ELSE [state EXCEPT !.cache_hit = FALSE]

\* the query text guardrail_node hands to guardrail.validate
GuardrailSql(state) == <<>>
guardrail_node(state) ==
    IF state.plan = None THEN [state EXCEPT !.error = Some(<<"No plan to validate">>)]
    ELSE LET validation_result == validate(state.plan[1], GuardrailSql(state))
         IN  IF ~validation_result.is_valid
             THEN [state EXCEPT !.error = validation_result.error_message]
             ELSE state

\* variant of sql_executor_node that swallows a failure of the executor
sql_executor_node_swallowing(state, res, r) ==
    IF state.plan = None THEN [state EXCEPT !.error = Some(<<"No plan to execute">>)]
    ELSE IF res.ok THEN [state EXCEPT !.df_dict = Some([rows |-> res.rows, by |-> r])]
    ELSE state

ExecutorOutcomes == {[ok |-> TRUE, rows |-> n] : n \in 0..MaxRows}
                     \cup {[ok |-> FALSE, rows |-> 0]}
sql_executor_node(state, res, r) ==
    IF state.plan = None THEN [state EXCEPT !.error = Some(<<"No plan to execute">>)]
    ELSE IF res.ok THEN [state EXCEPT !.df_dict = Some([rows |-> res.rows, by |-> r])]
    ELSE [state EXCEPT !.error = Some(<<"Query execution failed">>)]

\* chart_node and insights_node return early without calling the tool
SkipsArtifact(state) == state.plan = None \/ ~TruthyRows(state.df_dict)

\* variant of chart_node in which a failure of the renderer is an error
chart_node_fatal(state, ok, r) ==
    IF state.plan = None \/ ~TruthyRows(state.df_dict) THEN state
    ELSE IF ok THEN [state EXCEPT !.chart_spec = Some([chart |-> r])]
    ELSE [state EXCEPT !.error = Some(<<"Chart generation failed">>)]

chart_node(state, ok, r) ==
    IF SkipsArtifact(state) THEN state
    ELSE IF ok THEN [state EXCEPT !.chart_spec = Some([chart |-> r])]
    ELSE state
insights_node(state, ok, r) ==
    IF SkipsArtifact(state) THEN state
    ELSE IF ok THEN [state EXCEPT !.insight = Some(Insight(r))]
    ELSE state

\* variant of StoresResult without the check for a chart or an insight
StoresResult_without_artifact_check(state) ==
    /\ state.cache_key # None
    /\ state.error = None
    /\ state.df_dict # None /\ state.df_dict[1].rows > 0

\* cache_store_node: does it reach cache_tool.set, and with which value
StoresResult(state) ==
    /\ state.cache_key # None
    /\ state.error = None
    /\ TruthyRows(state.df_dict)
    /\ ~(state.chart_spec = None /\ state.insight = None)
cache_value(state) ==
    [df_dict |-> state.df_dict, chart_spec |-> state.chart_spec,
     insight |-> IF state.insight # None THEN Some(model_dump(state.insight[1]))
                 ELSE None]

\* variants of the conditional edges: explain is not routed to memory, a
\* cache hit does not end the attempt, a rejection does not end the attempt
should_use_memory_never(state) == "planner"
should_skip_execution_ignoring_hit(state) ==
    IF state.error # None THEN "END" ELSE "guardrail"
should_continue_after_guardrail_always(state) == "sql_executor"

\* conditional edges
should_use_memory(state) ==
    IF state.intent = Some("explain") THEN "memory" ELSE "planner"
should_skip_execution(state) ==
    IF state.cache_hit THEN "END"
    ELSE IF state.error # None THEN "END"
    ELSE "guardrail"
should_continue_after_guardrail(state) ==
    IF state.error # None THEN "END" ELSE "sql_executor"

GraphNodes == {"router", "memory", "planner", "cache_check", "guardrail",
               "sql_executor", "chart", "insights", "cache_store"}

\* run_query, lines 606-624: the response built from final_state
Response(final_state) ==
    [plan |-> IF final_state.plan # None THEN Some(plan_dump(final_state.plan[1]))
              ELSE None,
     chart_spec |-> final_state.chart_spec,
     insight |-> IF final_state.insight = None THEN None
                 ELSE IF final_state.insight[1].kind = "dict" THEN final_state.insight
                 ELSE Some(model_dump(final_state.insight[1])),
     error |-> final_state.error,
     cache_hit |-> final_state.cache_hit]

\* no direct call of validate is under way
NoCall == [plan |-> BasePlan, sql |-> <<>>]

\* no cache_key is being taken
NoKeyCall == <<[base |-> BasePlan, entries |-> <<>>], [base |-> BasePlan, entries |-> <<>>]>>
KeyIdle == kcall = NoKeyCall /\ kresult = None

\* the threads that call the module-level functions of cache_tool
Threads == {"t1", "t2"}
IdleThread ==
    [pc |-> "idle", op |-> "none", key |-> "", ttl |-> 0, inst |-> 0,
     before |-> <<>>, time |-> 0, expired_keys |-> <<>>, result |-> None]
\* module load: _cache_instance = None
ThreadInit ==
    /\ cache_instance = 0
    /\ objs = <<>>
    /\ th = [t \in Threads |-> IdleThread]
    /\ calls = 0

(***************************************************************************)
(* Pipeline specification: concurrent run_query calls on the global cache  *)
(***************************************************************************)
NoGhost ==
    [invoked |-> {}, execCount |-> 0, hit |-> None, lookupLive |-> {},
     storedAt |-> None, startedAfter |-> {}, startedLive |-> {},
     invocations |-> 0]

RunInit ==
    /\ pc = [r \in Runs |-> "idle"]
    /\ st = [r \in Runs |-> InitialState("")]
    /\ attempt = [r \in Runs |-> 0]
    /\ max_retries = [r \in Runs |-> 0]
    /\ ghost = [r \in Runs |-> NoGhost]

\* the runs that stored a result no longer than the TTL ago
LiveStores == {q \in Runs : ghost[q].storedAt # None
                              /\ now <= ghost[q].storedAt[1] + CACHE_TTL}

Invoke(r, name) == [ghost EXCEPT ![r].invoked = @ \cup {name}]

\* run_query up to the first app.invoke; with max_retries = 0 the loop body
\* never runs and final_state.get raises on None
Start(r, user_query, mr) ==
    /\ pc[r] = "idle"
    /\ st' = [st EXCEPT ![r] = InitialState(user_query)]
    /\ max_retries' = [max_retries EXCEPT ![r] = mr]
    /\ pc' = [pc EXCEPT ![r] = IF 0 < mr THEN "router" ELSE "raised"]
    /\ ghost' = [ghost EXCEPT ![r].startedAfter = {q \in Runs : pc[q] = "done"},
                              ![r].startedLive = LiveStores,
                              ![r].invocations = IF 0 < mr THEN 1 ELSE 0]
    /\ UNCHANGED <<now, cache, cacheVars, guardVars, keyVars, threadVars, attempt>>

RouterNode(r) ==
    /\ pc[r] = "router"
    /\ \E res \in RouterOutcomes :
         /\ st' = [st EXCEPT ![r] = router_node(st[r], res)]
         /\ pc' = [pc EXCEPT ![r] = should_use_memory(router_node(st[r], res))]
    /\ ghost' = Invoke(r, "classify")
    /\ UNCHANGED <<now, cache, cacheVars, guardVars, keyVars, threadVars, attempt, max_retries>>

MemoryNode(r) ==
    /\ pc[r] = "memory"
    /\ \E res \in MemoryOutcomes :
         /\ st' = [st EXCEPT ![r] = memory_node(st[r], res)]
         /\ ghost' = IF res = "unavailable" THEN ghost ELSE Invoke(r, "explain")
    /\ pc' = [pc EXCEPT ![r] = "END"]
    /\ UNCHANGED <<now, cache, cacheVars, guardVars, keyVars, threadVars, attempt, max_retries>>

PlannerNode(r) ==
    /\ pc[r] = "planner"
    /\ \E res \in PlannerOutcomes(st[r].user_query) :
         st' = [st EXCEPT ![r] = planner_node(st[r], res)]
    /\ ghost' = Invoke(r, "plan")
    /\ pc' = [pc EXCEPT ![r] = "cache_check"]
    /\ UNCHANGED <<now, cache, cacheVars, guardVars, keyVars, threadVars, attempt, max_retries>>

CacheCheckNode(r) ==
    /\ pc[r] = "cache_check"
    /\ LET asks == st[r].cache_key # None
           cached_result == IF asks THEN GetResult(cache, st[r].cache_key[1], now)
                            ELSE None
           after == cache_check_node(st[r], cached_result)
       IN  /\ st' = [st EXCEPT ![r] = after]
           /\ cache' = IF asks THEN GetCache(cache, st[r].cache_key[1], now) ELSE cache
           /\ pc' = [pc EXCEPT ![r] = should_skip_execution(after)]
           /\ ghost' = IF asks
                       THEN [ghost EXCEPT ![r].invoked = @ \cup {"cache_get"},
                                          ![r].hit = cached_result,
                                          ![r].lookupLive = LiveStores]
                       ELSE ghost
    /\ UNCHANGED <<now, cacheVars, guardVars, keyVars, threadVars, attempt, max_retries>>

GuardrailNode(r) ==
    /\ pc[r] = "guardrail"
    /\ st' = [st EXCEPT ![r] = guardrail_node(st[r])]
    /\ pc' = [pc EXCEPT ![r] = should_continue_after_guardrail(guardrail_node(st[r]))]
    /\ ghost' = IF st[r].plan # None THEN Invoke(r, "validate") ELSE ghost
    /\ UNCHANGED <<now, cache, cacheVars, guardVars, keyVars, threadVars, attempt, max_retries>>

SqlExecutorNode(r) ==
    /\ pc[r] = "sql_executor"
    /\ \E res \in ExecutorOutcomes :
         st' = [st EXCEPT ![r] = sql_executor_node(st[r], res, r)]
    /\ pc' = [pc EXCEPT ![r] = "chart"]
    /\ ghost' = IF st[r].plan # None
                THEN [ghost EXCEPT ![r].invoked = @ \cup {"execute"},
                                   ![r].execCount = @ + 1]
                ELSE ghost
    /\ UNCHANGED <<now, cache, cacheVars, guardVars, keyVars, threadVars, attempt, max_retries>>

ChartNode(r) ==
    /\ pc[r] = "chart"
    /\ \E ok \in BOOLEAN : st' = [st EXCEPT ![r] = chart_node(st[r], ok, r)]
    /\ pc' = [pc EXCEPT ![r] = "insights"]
    /\ ghost' = IF SkipsArtifact(st[r]) THEN ghost ELSE Invoke(r, "render")
    /\ UNCHANGED <<now, cache, cacheVars, guardVars, keyVars, threadVars, attempt, max_retries>>

\* variant of InsightsNode with an edge back to chart while no chart is there
InsightsNode_rerenders(r) ==
    /\ pc[r] = "insights"
    /\ \E ok \in BOOLEAN : st' = [st EXCEPT ![r] = insights_node(st[r], ok, r)]
    /\ pc' = [pc EXCEPT ![r] = IF SkipsArtifact(st[r]) \/ st[r].chart_spec # None
                               THEN "cache_store" ELSE "chart"]
    /\ ghost' = IF SkipsArtifact(st[r]) THEN ghost ELSE Invoke(r, "summarize")
    /\ UNCHANGED <<now, cache, cacheVars, guardVars, keyVars, threadVars, attempt, max_retries>>

InsightsNode(r) ==
    /\ pc[r] = "insights"
    /\ \E ok \in BOOLEAN : st' = [st EXCEPT ![r] = insights_node(st[r], ok, r)]
    /\ pc' = [pc EXCEPT ![r] = "cache_store"]
    /\ ghost' = IF SkipsArtifact(st[r]) THEN ghost ELSE Invoke(r, "summarize")
    /\ UNCHANGED <<now, cache, cacheVars, guardVars, keyVars, threadVars, attempt, max_retries>>

CacheStoreNode(r) ==
    /\ pc[r] = "cache_store"
    /\ IF StoresResult(st[r])
       THEN /\ cache' = SetCache(cache, st[r].cache_key[1], cache_value(st[r]),
                                 CACHE_TTL, now)
            /\ ghost' = [ghost EXCEPT ![r].invoked = @ \cup {"cache_set"},
                                      ![r].storedAt = Some(now)]
       ELSE UNCHANGED <<cache, ghost>>
    /\ pc' = [pc EXCEPT ![r] = "END"]
    /\ UNCHANGED <<now, cacheVars, guardVars, keyVars, threadVars, st, attempt, max_retries>>

\* variant of InvokeReturn that returns after the first attempt, error or not
InvokeReturn_stops_on_error(r) ==
    /\ pc[r] = "END"
    /\ pc' = [pc EXCEPT ![r] = "done"]
    /\ attempt' = [attempt EXCEPT ![r] = IF st[r].error = None THEN @ ELSE @ + 1]
    /\ UNCHANGED <<now, cache, cacheVars, guardVars, keyVars, threadVars, st, max_retries, ghost>>

\* run_query, lines 584-596: app.invoke returned final_state
InvokeReturn(r) ==
    /\ pc[r] = "END"
    /\ IF st[r].error = None
       THEN /\ pc' = [pc EXCEPT ![r] = "done"]
            /\ UNCHANGED <<st, attempt, ghost>>
       ELSE /\ attempt' = [attempt EXCEPT ![r] = @ + 1]
            /\ IF attempt[r] + 1 < max_retries[r]
               THEN /\ pc' = [pc EXCEPT ![r] = "router"]
                    /\ st' = [st EXCEPT ![r] = InitialState(st[r].user_query)]
                    /\ ghost' = [ghost EXCEPT ![r].invoked = {}, ![r].hit = None,
                                              ![r].lookupLive = {},
                                              ![r].invocations = @ + 1]
               ELSE /\ pc' = [pc EXCEPT ![r] = "done"]
                    /\ UNCHANGED <<st, ghost>>
    /\ UNCHANGED <<now, cache, cacheVars, guardVars, keyVars, threadVars, max_retries>>

\* run_query, lines 598-604: app.invoke raised
InvokeRaise(r) ==
    /\ pc[r] \in GraphNodes
    /\ attempt' = [attempt EXCEPT ![r] = @ + 1]
    /\ IF attempt[r] + 1 >= max_retries[r]
       THEN /\ pc' = [pc EXCEPT ![r] = "done"]
            /\ st' = [st EXCEPT ![r] =
                        [InitialState(st[r].user_query) EXCEPT
                            !.error = Some(<<"Query execution failed after attempts">>)]]
            /\ UNCHANGED ghost
       ELSE /\ pc' = [pc EXCEPT ![r] = "router"]
            /\ st' = [st EXCEPT ![r] = InitialState(st[r].user_query)]
            /\ ghost' = [ghost EXCEPT ![r].invoked = {}, ![r].hit = None,
                                      ![r].lookupLive = {},
                                      ![r].invocations = @ + 1]
    /\ UNCHANGED <<now, cache, cacheVars, guardVars, keyVars, threadVars, max_retries>>

\* time passes
Tick ==
    /\ now + TickStep <= MaxTime
    /\ now' = now + TickStep
    /\ UNCHANGED <<cache, cacheVars, guardVars, keyVars, threadVars, runVars>>

(***************************************************************************)
(* Cache API specification: clients call the cache directly                *)
(***************************************************************************)
NoOp == [op |-> "none", key |-> "", time |-> 0, result |-> None,
         present |-> FALSE, sizeBefore |-> 0]

\* a get hit or a set counts as an access of the key
Touch(key) == [stamp EXCEPT ![key] = opCount + 1]

ApiGet(key) ==
    /\ opCount < MaxOps
    /\ lastOp' = [op |-> "get", key |-> key, time |-> now,
                  result |-> GetResult(cache, key, now),
                  present |-> key \in CacheKeys(cache), sizeBefore |-> Len(cache)]
    /\ cache' = GetCache(cache, key, now)
    /\ stamp' = IF GetResult(cache, key, now) # None THEN Touch(key) ELSE stamp
    /\ opCount' = opCount + 1
    /\ UNCHANGED <<runVars, guardVars, keyVars, threadVars>>
    /\ UNCHANGED <<now, lastSet>>

ApiSet(key, value, ttl) ==
    /\ opCount < MaxOps
    /\ lastOp' = [op |-> "set", key |-> key, time |-> now,
                  result |-> Some(value),
                  present |-> key \in CacheKeys(cache), sizeBefore |-> Len(cache)]
    /\ cache' = SetCache(cache, key, value, ttl, now)
    /\ lastSet' = [lastSet EXCEPT ![key] = Some([t |-> now, ttl |-> ttl, n |-> opCount + 1])]
    /\ stamp' = Touch(key)
    /\ opCount' = opCount + 1
    /\ UNCHANGED <<runVars, guardVars, keyVars, threadVars>>
    /\ UNCHANGED now

ApiClear ==
    /\ opCount < MaxOps
    /\ lastOp' = [op |-> "clear", key |-> "", time |-> now,
                  result |-> None,
                  present |-> FALSE, sizeBefore |-> Len(cache)]
    /\ cache' = ClearCache(cache)
    /\ opCount' = opCount + 1
    /\ UNCHANGED <<runVars, guardVars, keyVars, threadVars>>
    /\ UNCHANGED <<now, lastSet, stamp>>

ApiSize ==
    /\ opCount < MaxOps
    /\ lastOp' = [op |-> "size", key |-> "", time |-> now,
                  result |-> Some(SizeResult(cache)),
                  present |-> FALSE, sizeBefore |-> Len(cache)]
    /\ opCount' = opCount + 1
    /\ UNCHANGED <<runVars, guardVars, keyVars, threadVars>>
    /\ UNCHANGED <<now, cache, lastSet, stamp>>

ApiCleanup ==
    /\ opCount < MaxOps
    /\ lastOp' = [op |-> "cleanup_expired", key |-> "", time |-> now,
                  result |-> Some(CleanupResult(cache, now)),
                  present |-> FALSE, sizeBefore |-> Len(cache)]
    /\ cache' = CleanupCache(cache, now)
    /\ opCount' = opCount + 1
    /\ UNCHANGED <<runVars, guardVars, keyVars, threadVars>>
    /\ UNCHANGED <<now, lastSet, stamp>>

ApiTick ==
    /\ now < MaxClock
    /\ now' = now + 1
    /\ UNCHANGED <<runVars, guardVars, keyVars, threadVars>>
    /\ UNCHANGED <<cache, lastOp, lastSet, stamp, opCount>>

CacheInit ==
    /\ now = 0
    /\ cache = <<>>
    /\ lastOp = NoOp
    /\ lastSet = [k \in ApiKeys |-> None]
    /\ stamp = [k \in ApiKeys |-> 0]
    /\ opCount = 0
    /\ RunInit
    /\ vcall = NoCall
    /\ vresult = None
    /\ KeyIdle
    /\ ThreadInit

CacheNext ==
    \/ \E k \in ApiKeys : ApiGet(k)
    \/ \E k \in ApiKeys, v \in ApiValues, d \in ApiTTLs : ApiSet(k, v, d)
    \/ ApiClear
    \/ ApiSize
    \/ ApiCleanup
    \/ ApiTick

CacheSpec == CacheInit /\ [][CacheNext]_vars

(***************************************************************************)
(* Validator specification: clients call guardrail.validate directly       *)
(***************************************************************************)
\* str.lower, and the spelling with only the first letter in upper case
LowerChar(c) ==
    IF \E i \in 1..26 : c = UpperAlpha[i]
    THEN LowerAlpha[CHOOSE i \in 1..26 : c = UpperAlpha[i]]
    ELSE c
Lower(text) == [i \in 1..Len(text) |-> LowerChar(text[i])]
Capitalized(text) == <<Head(text)>> \o Lower(Tail(text))

\* query texts: each keyword, in three letter cases, between the characters
\* that may surround it
KeywordSpellings ==
    UNION {{DANGEROUS_KEYWORDS[n], Lower(DANGEROUS_KEYWORDS[n]),
            Capitalized(DANGEROUS_KEYWORDS[n])} : n \in 1..Len(DANGEROUS_KEYWORDS)}
Befores == {<<>>, <<" ">>, <<"(">>, <<"x">>, <<"_">>, <<"1">>, <<"x", " ">>}
Afters == {<<>>, <<" ">>, <<")">>, <<"e", "d">>, <<"_", "d">>, <<"1">>, <<" ", "t">>}
KeywordTexts == {b \o k \o a : b \in Befores, k \in KeywordSpellings, a \in Afters}

\* query texts: every text of at most MaxTextLen characters over a letter,
\* the statement separator and two whitespace characters
SeparatorAlphabet == {"a", ";", " ", "\n"}
SeparatorTexts == UNION {[1..n -> SeparatorAlphabet] : n \in 0..MaxTextLen}

\* a query text every text rule accepts
SafeText == <<"S", "E", "L", "E", "C", "T", " ", "1">>

\* plans: the values a segment filter may hold
SegmentFields == {"channel", "grade", "prod_type", "repeat_type", "term",
                  "cr_fico_band", "purpose"}
SomeMember(f) == CHOOSE x \in ALLOWED_SEGMENTS[f] : TRUE
SegmentValues(f) ==
    IF f = "term" THEN ALLOWED_SEGMENTS[f] \cup {0, 99}
    ELSE ALLOWED_SEGMENTS[f] \cup {"ALL", "", "bogus"}
ProbeValues(f) ==
    IF f = "term" THEN {SomeMember(f), 0, 99}
    ELSE {SomeMember(f), "ALL", "", "bogus"}
WithSegments(seg) == [BasePlan EXCEPT !.segments = seg]

\* one filter populated, with every value; two filters populated, with the
\* probe values; every filter absent, a member or out of the set
OneFieldPlans ==
    UNION {{WithSegments([NoSegments EXCEPT ![f] = Some(v)]) : v \in SegmentValues(f)}
            : f \in SegmentFields}
TwoFieldPlans ==
    UNION {{WithSegments([NoSegments EXCEPT ![fg[1]] = Some(v), ![fg[2]] = Some(w)])
                : v \in ProbeValues(fg[1]), w \in ProbeValues(fg[2])}
            : fg \in {x \in SegmentFields \X SegmentFields : x[1] # x[2]}}
ManyFieldPlans ==
    {WithSegments([f \in SegmentFields |->
                      CASE c[f] = 0 -> None
                        [] c[f] = 1 -> Some(SomeMember(f))
                        [] OTHER -> Some(IF f = "term" THEN 99 ELSE "bogus")])
        : c \in [SegmentFields -> 0..2]}

\* plans: the window codes
Windows == {"last_7d", "last_full_week", "last_30d", "last_full_month",
            "last_3_full_months", "last_year", "all_time", ""}
WindowPlans == {[PlanOk EXCEPT !.window = w] : w \in Windows}

GuardCalls ==
    {[plan |-> PlanOk, sql |-> t] : t \in KeywordTexts \cup SeparatorTexts}
    \cup {[plan |-> p, sql |-> SafeText]
            : p \in OneFieldPlans \cup TwoFieldPlans \cup ManyFieldPlans \cup WindowPlans}
    \cup {[plan |-> p, sql |-> t]
            : p \in {PlanOk, PlanBadSegment, [PlanOk EXCEPT !.window = "last_year"]},
              t \in {<<"d", "r", "o", "p">>, <<"a", ";", "a">>,
                     <<"d", "r", "o", "p", ";", "a">>}}

GuardInit ==
    /\ now = 0
    /\ cache = <<>>
    /\ lastOp = NoOp
    /\ lastSet = [k \in ApiKeys |-> None]
    /\ stamp = [k \in ApiKeys |-> 0]
    /\ opCount = 0
    /\ RunInit
    /\ vcall \in GuardCalls
    /\ vresult = None
    /\ KeyIdle
    /\ ThreadInit

\* the call returns
Validate ==
    /\ vresult = None
    /\ vresult' = Some(validate(vcall.plan, vcall.sql))
    /\ UNCHANGED <<now, cache, cacheVars, runVars, vcall, keyVars, threadVars>>

GuardNext == Validate

GuardSpec == GuardInit /\ [][GuardNext]_vars

(***************************************************************************)
(* Fingerprint specification: two Plans are constructed and fingerprinted  *)
(***************************************************************************)
\* largest number of segment entries supplied to one SegmentFilters(...)
MaxEntries == 2

\* segment entries <<field, value>> a caller supplies as keyword arguments
KeyEntries ==
    {<<"channel", "Email">>, <<"channel", "OMB">>, <<"grade", "P1">>,
     <<"prod_type", "Prime">>}

\* keyword arguments in every order, no field given twice
EntrySeqs ==
    {e \in UNION {[1..n -> KeyEntries] : n \in 0..MaxEntries} :
        \A i, j \in 1..Len(e) : i # j => e[i][1] # e[j][1]}

\* BasePlan and the plans that differ from it in one field other than segments
BaseVariants ==
    {BasePlan,
     [BasePlan EXCEPT !.intent = "distribution"],
     [BasePlan EXCEPT !.table = "app_tb"],
     [BasePlan EXCEPT !.metric = <<"c","n","t">>],
     [BasePlan EXCEPT !.date_col = "app_submit_d"],
     [BasePlan EXCEPT !.window = "last_7d"],
     [BasePlan EXCEPT !.granularity = "monthly"],
     [BasePlan EXCEPT !.chart = "bar"]}

PlanArgs == [base : BaseVariants, entries : EntrySeqs]

\* SegmentFilters(**entries): a field keeps its declared place, whatever the
\* order of the keyword arguments; a field not given is None
MakeSegments(entries) ==
    [f \in DOMAIN NoSegments |->
        IF \E i \in 1..Len(entries) : entries[i][1] = f
        THEN Some(entries[CHOOSE i \in 1..Len(entries) : entries[i][1] = f][2])
        ELSE None]

\* Plan(intent=..., ..., segments=SegmentFilters(...), chart=...)
MakePlan(args) == [args.base EXCEPT !.segments = MakeSegments(args.entries)]

KeyInit ==
    /\ now = 0
    /\ cache = <<>>
    /\ lastOp = NoOp
    /\ lastSet = [k \in ApiKeys |-> None]
    /\ stamp = [k \in ApiKeys |-> 0]
    /\ opCount = 0
    /\ RunInit
    /\ vcall = NoCall
    /\ vresult = None
    /\ kcall \in PlanArgs \X PlanArgs
    /\ kresult = None
    /\ ThreadInit

\* plan1.cache_key() and plan2.cache_key()
Fingerprint ==
    /\ kresult = None
    /\ kresult' = Some(<<cache_key(MakePlan(kcall[1])), cache_key(MakePlan(kcall[2]))>>)
    /\ UNCHANGED <<now, cache, cacheVars, runVars, guardVars, kcall, threadVars>>

KeyNext == Fingerprint

KeySpec == KeyInit /\ [][KeyNext]_vars

(***************************************************************************)
(* Thread specification: threads call the module-level functions of        *)
(* cache_tool; every statement that touches shared data is a step          *)
(***************************************************************************)
\* number of calls the threads make in all
MaxCalls == 3

\* last clock reading of the thread specification
MaxThreadClock == 1

\* ex = 0: the entry is expired at every later clock reading
ThreadTTLs == {0}
\* the value thread t stores
ThreadValue(t) == [data |-> "a"]

\* the calls a thread makes: cache_tool.get(key), set(key, value, ex), clear(),
\* get_cache().size(), cleanup_expired()
ThreadCalls ==
    [op : {"get"}, key : ApiKeys, ttl : {0}]
        \cup [op : {"set"}, key : ApiKeys, ttl : ThreadTTLs]
        \cup [op : {"clear", "size", "cleanup_expired"}, key : {""}, ttl : {0}]

\* the positions at which a thread is inside a `with self._lock:` block
LockedPcs ==
    {"get_find", "get_expire", "get_move", "set_del", "set_add", "set_evict",
     "clear", "size", "cleanup_scan", "cleanup_del", "release"}

\* first statement of each method body
FirstStep(op) ==
    CASE op = "get" -> "get_find"
      [] op = "set" -> "set_del"
      [] op = "clear" -> "clear"
      [] op = "size" -> "size"
      [] op = "cleanup_expired" -> "cleanup_scan"

\* what the steps of the threads leave alone
ThreadFrame == UNCHANGED <<cache, cacheVars, runVars, guardVars, keyVars>>

\* the _cache of the instance thread t works on
OwnCache(t) == objs[th[t].inst].cache
\* thread t goes to position p with locals l and leaves c in its instance
Step(t, p, c, l) ==
    /\ th' = [th EXCEPT ![t] = [l EXCEPT !.pc = p]]
    /\ objs' = [objs EXCEPT ![th[t].inst].cache = c]
    /\ UNCHANGED <<now, cache_instance, calls>>
    /\ ThreadFrame

\* a thread enters a module-level function
Call(t, c) ==
    /\ th[t].pc = "idle"
    /\ calls < MaxCalls
    /\ th' = [th EXCEPT ![t] = [IdleThread EXCEPT !.pc = "gc_check", !.op = c.op,
                                                  !.key = c.key, !.ttl = c.ttl]]
    /\ calls' = calls + 1
    /\ UNCHANGED <<now, cache_instance, objs>>
    /\ ThreadFrame

\* get_cache: if _cache_instance is None
GetCacheCheck(t) ==
    /\ th[t].pc = "gc_check"
    /\ th' = [th EXCEPT ![t].pc = IF cache_instance = 0 THEN "gc_create" ELSE "gc_return"]
    /\ UNCHANGED <<now, cache_instance, objs, calls>>
    /\ ThreadFrame

\* get_cache: _cache_instance = InMemoryLRUCache()
GetCacheCreate(t) ==
    /\ th[t].pc = "gc_create"
    /\ objs' = Append(objs, [cache |-> <<>>, lock |-> "free"])
    /\ cache_instance' = Len(objs) + 1
    /\ th' = [th EXCEPT ![t].pc = "gc_return"]
    /\ UNCHANGED <<now, calls>>
    /\ ThreadFrame

\* get_cache: return _cache_instance
GetCacheReturn(t) ==
    /\ th[t].pc = "gc_return"
    /\ th' = [th EXCEPT ![t].pc = "acquire", ![t].inst = cache_instance]
    /\ UNCHANGED <<now, cache_instance, objs, calls>>
    /\ ThreadFrame

\* variant of Acquire that does not wait for the lock
Acquire_without_waiting(t) ==
    /\ th[t].pc = "acquire"
    /\ th' = [th EXCEPT ![t].pc = FirstStep(th[t].op), ![t].before = OwnCache(t)]
    /\ objs' = [objs EXCEPT ![th[t].inst].lock = t]
    /\ UNCHANGED <<now, cache_instance, calls>>
    /\ ThreadFrame

\* with self._lock: (entry)
Acquire(t) ==
    /\ th[t].pc = "acquire"
    /\ objs[th[t].inst].lock = "free"
    /\ th' = [th EXCEPT ![t].pc = FirstStep(th[t].op), ![t].before = OwnCache(t)]
    /\ objs' = [objs EXCEPT ![th[t].inst].lock = t]
    /\ UNCHANGED <<now, cache_instance, calls>>
    /\ ThreadFrame

\* get: if key not in self._cache: return None
GetFind(t) ==
    /\ th[t].pc = "get_find"
    /\ IF th[t].key \notin CacheKeys(OwnCache(t))
       THEN Step(t, "release", OwnCache(t), th[t])
       ELSE Step(t, "get_expire", OwnCache(t), th[t])

\* get: entry = self._cache[key]; if entry.is_expired(): del; return None
GetExpire(t) ==
    /\ th[t].pc = "get_expire"
    /\ LET c == OwnCache(t)
           l == [th[t] EXCEPT !.time = now]
       IN  IF th[t].key \notin CacheKeys(c)
           THEN Step(t, "release", c, [l EXCEPT !.result = Some("KeyError")])
           ELSE IF is_expired(c[IndexOf(c, th[t].key)], now)
           THEN Step(t, "release", DelKey(c, th[t].key), l)
           ELSE Step(t, "get_move", c, [l EXCEPT !.result = Some(c[IndexOf(c, th[t].key)].value)])

\* get: move_to_end; copy and deserialize the value; return it
GetMove(t) ==
    /\ th[t].pc = "get_move"
    /\ LET c == OwnCache(t)
       IN  IF th[t].key \notin CacheKeys(c)
           THEN Step(t, "release", c, [th[t] EXCEPT !.result = Some("KeyError")])
           ELSE Step(t, "release", move_to_end(c, th[t].key),
                     [th[t] EXCEPT !.result = Some(DeserializeValue(th[t].result[1]))])

\* set: entry = CacheEntry(...); if key in self._cache: del self._cache[key]
SetDel(t) ==
    /\ th[t].pc = "set_del"
    /\ LET c == OwnCache(t)
           l == [th[t] EXCEPT !.time = now]
       IN  IF th[t].key \in CacheKeys(c)
           THEN Step(t, "set_add", DelKey(c, th[t].key), l)
           ELSE Step(t, "set_add", c, l)

\* the entry `self._cache[key] = entry` leaves: a key already there keeps its place
AssignEntry(c, entry) ==
    IF entry.key \in CacheKeys(c)
    THEN [i \in 1..Len(c) |-> IF c[i].key = entry.key THEN entry ELSE c[i]]
    ELSE Append(c, entry)

\* set: self._cache[key] = entry
SetAdd(t) ==
    /\ th[t].pc = "set_add"
    /\ Step(t, "set_evict",
            AssignEntry(OwnCache(t),
                        CacheEntry(th[t].key, SerializeValue(ThreadValue(t)),
                                   th[t].ttl, th[t].time)),
            th[t])

\* variant of SetEvict that never evicts
SetEvict_never(t) ==
    /\ th[t].pc = "set_evict"
    /\ Step(t, "release", OwnCache(t), th[t])

\* set: if len(self._cache) > self.max_size: self._cache.popitem(last=False)
SetEvict(t) ==
    /\ th[t].pc = "set_evict"
    /\ IF Len(OwnCache(t)) > MaxSize
       THEN Step(t, "release", popitem_first(OwnCache(t)), th[t])
       ELSE Step(t, "release", OwnCache(t), th[t])

\* clear: self._cache.clear()
ClearStep(t) ==
    /\ th[t].pc = "clear"
    /\ Step(t, "release", <<>>, th[t])

\* size: return len(self._cache)
SizeStep(t) ==
    /\ th[t].pc = "size"
    /\ Step(t, "release", OwnCache(t), [th[t] EXCEPT !.result = Some(Len(OwnCache(t)))])

\* the keys of the expired entries, in cache order
ExpiredKeys(c, t) ==
    LET e == SelectSeq(c, LAMBDA x : is_expired(x, t))
    IN  [i \in 1..Len(e) |-> e[i].key]

\* cleanup_expired: expired_keys = [key for key, entry in ... if entry.is_expired()]
CleanupScan(t) ==
    /\ th[t].pc = "cleanup_scan"
    /\ Step(t, "cleanup_del", OwnCache(t),
            [th[t] EXCEPT !.time = now,
                          !.expired_keys = ExpiredKeys(OwnCache(t), now),
                          !.result = Some(Len(ExpiredKeys(OwnCache(t), now)))])

\* cleanup_expired: for key in expired_keys: del self._cache[key]; then return
CleanupDel(t) ==
    /\ th[t].pc = "cleanup_del"
    /\ LET c == OwnCache(t)
           ks == th[t].expired_keys
       IN  IF ks = <<>>
           THEN Step(t, "release", c, th[t])
           ELSE IF Head(ks) \notin CacheKeys(c)
           THEN Step(t, "release", c, [th[t] EXCEPT !.result = Some("KeyError")])
           ELSE Step(t, "cleanup_del", DelKey(c, Head(ks)),
                     [th[t] EXCEPT !.expired_keys = Tail(ks)])

\* with self._lock: (exit), and the method returns
Release(t) ==
    /\ th[t].pc = "release"
    /\ th' = [th EXCEPT ![t] = IdleThread]
    /\ objs' = [objs EXCEPT ![th[t].inst].lock = "free"]
    /\ UNCHANGED <<now, cache_instance, calls>>
    /\ ThreadFrame

\* a node function calls a collaborator (classify, plan, execute, render,
\* summarize) between its cache calls
CollaboratorCall(t) ==
    /\ th[t].pc = "idle"
    /\ calls < MaxCalls
    /\ th' = [th EXCEPT ![t].pc = "collaborator"]
    /\ calls' = calls + 1
    /\ UNCHANGED <<now, cache_instance, objs>>
    /\ ThreadFrame

CollaboratorReturn(t) ==
    /\ th[t].pc = "collaborator"
    /\ th' = [th EXCEPT ![t].pc = "idle"]
    /\ UNCHANGED <<now, cache_instance, objs, calls>>
    /\ ThreadFrame

\* time.time() advances
ThreadTick ==
    /\ now < MaxThreadClock
    /\ now' = now + 1
    /\ UNCHANGED <<cache_instance, objs, th, calls>>
    /\ ThreadFrame

ThreadNext ==
    \/ \E t \in Threads, c \in ThreadCalls : Call(t, c)
    \/ \E t \in Threads : GetCacheCheck(t)
    \/ \E t \in Threads : GetCacheCreate(t)
    \/ \E t \in Threads : GetCacheReturn(t)
    \/ \E t \in Threads : Acquire(t)
    \/ \E t \in Threads : GetFind(t)
    \/ \E t \in Threads : GetExpire(t)
    \/ \E t \in Threads : GetMove(t)
    \/ \E t \in Threads : SetDel(t)
    \/ \E t \in Threads : SetAdd(t)
    \/ \E t \in Threads : SetEvict(t)
    \/ \E t \in Threads : ClearStep(t)
    \/ \E t \in Threads : SizeStep(t)
    \/ \E t \in Threads : CleanupScan(t)
    \/ \E t \in Threads : CleanupDel(t)
    \/ \E t \in Threads : Release(t)
    \/ \E t \in Threads : CollaboratorCall(t)
    \/ \E t \in Threads : CollaboratorReturn(t)
    \/ ThreadTick

ThreadSpec == CacheInit /\ [][ThreadNext]_vars

Init == CacheInit

Next ==
    \/ \E r \in Runs, q \in Queries, mr \in 0..MaxRetries : Start(r, q, mr)
    \/ \E r \in Runs : RouterNode(r)
    \/ \E r \in Runs : MemoryNode(r)
    \/ \E r \in Runs : PlannerNode(r)
    \/ \E r \in Runs : CacheCheckNode(r)
    \/ \E r \in Runs : GuardrailNode(r)
    \/ \E r \in Runs : SqlExecutorNode(r)
    \/ \E r \in Runs : ChartNode(r)
    \/ \E r \in Runs : InsightsNode(r)
    \/ \E r \in Runs : CacheStoreNode(r)
    \/ \E r \in Runs : InvokeReturn(r)
    \/ \E r \in Runs : InvokeRaise(r)
    \/ Tick

Spec == Init /\ [][Next]_vars

\* a step of the thread that executes the run_query call r
RunStep(r) ==
    \/ RouterNode(r) \/ MemoryNode(r) \/ PlannerNode(r) \/ CacheCheckNode(r)
    \/ GuardrailNode(r) \/ SqlExecutorNode(r) \/ ChartNode(r) \/ InsightsNode(r)
    \/ CacheStoreNode(r) \/ InvokeReturn(r) \/ InvokeRaise(r)

\* one run_query call on its own; the thread that executes it keeps running,
\* since every collaborator call returns or raises
SoloNext ==
    \/ \E q \in Queries, mr \in 0..MaxRetries : Start("r1", q, mr)
    \/ RouterNode("r1")
    \/ MemoryNode("r1")
    \/ PlannerNode("r1")
    \/ CacheCheckNode("r1")
    \/ GuardrailNode("r1")
    \/ SqlExecutorNode("r1")
    \/ ChartNode("r1")
    \/ InsightsNode("r1")
    \/ CacheStoreNode("r1")
    \/ InvokeReturn("r1")
    \/ InvokeRaise("r1")
    \/ Tick

SoloSpec == Init /\ [][SoloNext]_vars /\ WF_vars(RunStep("r1"))

(***************************************************************************)
(* Pipeline claims                                                         *)
(***************************************************************************)
\* the current attempt of r has returned from the graph
AttemptEnded(r) == pc[r] \in {"END", "done"}
\* the cache lookup of the current attempt of r found an unexpired entry
LookupHit(r) == ghost[r].hit # None
HasArtifact(state) == state.chart_spec # None \/ state.insight # None

\* C1: in an attempt whose cache lookup hits, the validator, the executor,
\* the renderer, the summarizer and the cache write are not invoked, the
\* attempt ends right after the lookup, and the chart and insight of its
\* state (and of the response built from it) are those of the cached bundle.
C1_HitSkipsExecution ==
    \A r \in Runs :
        LookupHit(r) =>
            /\ AttemptEnded(r)
            /\ st[r].cache_hit
            /\ ghost[r].invoked \cap {"validate", "execute", "render",
                                      "summarize", "cache_set"} = {}
            /\ st[r].chart_spec = ghost[r].hit[1].chart_spec
            /\ st[r].insight = ghost[r].hit[1].insight
            /\ Response(st[r]).chart_spec = ghost[r].hit[1].chart_spec
            /\ Response(st[r]).insight = ghost[r].hit[1].insight

\* C1 witness: a run answered from the cache, with both artifacts in the bundle.
C1_Witness ==
    \E r \in Runs :
        /\ pc[r] = "done" /\ LookupHit(r)
        /\ ghost[r].hit[1].chart_spec # None /\ ghost[r].hit[1].insight # None
        /\ Response(st[r]).cache_hit

\* run a finished before run b started, both asked the same question and
\* ended with the same plan, and a succeeded with rows and an artifact
InSuccession(a, b) ==
    /\ a # b /\ pc[a] = "done" /\ pc[b] = "done"
    /\ a \in ghost[b].startedAfter
    /\ st[a].user_query = st[b].user_query
    /\ st[a].plan # None /\ st[b].plan = st[a].plan
    /\ st[a].error = None /\ TruthyRows(st[a].df_dict) /\ HasArtifact(st[a])

SecondAnsweredFromCache(a, b) ==
    /\ ~Response(st[a]).cache_hit
    /\ Response(st[b]).cache_hit
    /\ Response(st[b]).chart_spec = Response(st[a]).chart_spec
    /\ Response(st[b]).insight = Response(st[a]).insight

\* C2 (as amended): when the same plan is run twice in succession, the first
\* run succeeding with rows and an artifact and the cache lookup of the second
\* run's last attempt made within the TTL of the entry the first run stored,
\* the first response has cache_hit = false, the second has cache_hit = true
\* with the artifacts of the first, the second run never invokes the executor,
\* and the first run invokes it once per attempt that reached execution:
\* exactly once when it succeeded at its first attempt.
C2_SecondRunHitsCache ==
    \A a, b \in Runs :
        (InSuccession(a, b) /\ a \in ghost[b].lookupLive) =>
            /\ SecondAnsweredFromCache(a, b)
            /\ ghost[b].execCount = 0
            /\ ghost[a].execCount >= 1 /\ ghost[a].execCount <= attempt[a] + 1
            /\ (attempt[a] = 0 => ghost[a].execCount + ghost[b].execCount = 1)

\* C2 witness: two runs in succession, the first succeeding at once, the second
\* answered from the cache.
C2_Witness ==
    \E a, b \in Runs :
        /\ InSuccession(a, b) /\ a \in ghost[b].lookupLive
        /\ attempt[a] = 0
        /\ Response(st[b]).cache_hit /\ Response(st[b]).insight # None
        /\ ghost[a].execCount + ghost[b].execCount = 1

\* C2 (as claimed): when the same plan is run twice in succession, the first
\* run succeeding with rows and an artifact and the second run starting within
\* the TTL, the first response has cache_hit = false, the second cache_hit =
\* true with the artifacts of the first, and the executor is invoked exactly
\* once across both runs.
C2_Original ==
    \A a, b \in Runs :
        (InSuccession(a, b) /\ a \in ghost[b].startedLive) =>
            /\ SecondAnsweredFromCache(a, b)
            /\ ghost[a].execCount + ghost[b].execCount = 1

\* what every key maps to for a reader at time t
CacheView(c, t) == [p \in Plans |-> GetResult(c, cache_key(p), t)]
\* r runs its cache_store node in this step
StoreStep(r) == pc[r] = "cache_store" /\ pc'[r] = "END"

\* C3: a step of the orchestrator changes what the cache maps a key to only
\* if it is the cache_store node of an attempt whose state has no error, at
\* least one row and a chart or an insight, and which took neither the
\* explain path nor the cache-hit path; that step writes the bundle of this
\* state under the plan's key, and every other step leaves the mapping as it
\* was (a lookup may only drop an expired entry or refresh the recency order).
C3_WriteOnlyOnSuccess ==
    [][now' = now =>
        \/ CacheView(cache', now) = CacheView(cache, now)
        \/ \E r \in Runs :
             /\ StoreStep(r)
             /\ st[r].error = None
             /\ TruthyRows(st[r].df_dict)
             /\ HasArtifact(st[r])
             /\ st[r].intent # Some("explain") /\ "explain" \notin ghost[r].invoked
             /\ ~st[r].cache_hit /\ ~LookupHit(r)
             /\ "cache_set" \in ghost'[r].invoked
             /\ CacheView(cache', now) =
                  [CacheView(cache, now) EXCEPT ![st[r].plan[1]] =
                        Some(cache_value(st[r]))]]_vars

\* C3 witness: one run has written its result, another ended with an error
\* after a lookup and wrote nothing.
C3_Witness ==
    \E a, b \in Runs :
        /\ "cache_set" \in ghost[a].invoked /\ pc[a] = "done"
        /\ pc[b] = "done" /\ st[b].error # None
        /\ "cache_get" \in ghost[b].invoked /\ "cache_set" \notin ghost[b].invoked
        /\ Len(cache) = 1

\* C4: in an attempt whose classified intent is explain only the classifier
\* and the explanation step are invoked (no planner, cache lookup, validator,
\* executor, renderer, summarizer or cache write), and the attempt ends
\* after the explanation step with a narrative in its state.
C4_ExplainSkipsPipeline ==
    \A r \in Runs :
        st[r].intent = Some("explain") =>
            /\ ghost[r].invoked \subseteq {"classify", "explain"}
            /\ pc[r] \in {"memory", "END", "done"}
            /\ st[r].plan = None /\ st[r].df_dict = None /\ st[r].chart_spec = None
            /\ (AttemptEnded(r) => st[r].insight # None)

\* C4 witness: an explain run finished with the explanation as its narrative.
C4_Witness ==
    \E r \in Runs :
        /\ pc[r] = "done" /\ st[r].intent = Some("explain")
        /\ "explain" \in ghost[r].invoked
        /\ Response(st[r]).insight = Some(model_dump(Insight("explanation")))

\* the validator was invoked in the current attempt of r and rejected the plan
Rejected(r) ==
    /\ "validate" \in ghost[r].invoked
    /\ st[r].plan # None
    /\ ~validate(st[r].plan[1], GuardrailSql(st[r])).is_valid
\* the state records the security flag of a validation result
CarriesSecurityFlag(state, result) ==
    /\ "security_event" \in DOMAIN state
    /\ state.security_event = result.security_event

\* C5 (as amended): in an attempt where the validator returns invalid, the
\* error of the state is the validator's reason (the message only: the state
\* has no member for the security flag), the attempt ends, and the executor,
\* the renderer, the summarizer and the cache write are not invoked.
C5_RejectionEndsAttempt ==
    \A r \in Runs :
        Rejected(r) =>
            /\ st[r].error = validate(st[r].plan[1], GuardrailSql(st[r])).error_message
            /\ st[r].error # None
            /\ "security_event" \notin DOMAIN st[r]
            /\ "security_event" \notin DOMAIN Response(st[r])
            /\ AttemptEnded(r)
            /\ ghost[r].invoked \cap {"execute", "render", "summarize", "cache_set"} = {}

\* C5 witness: a run ended on a rejected plan.
C5_Witness ==
    \E r \in Runs : pc[r] = "done" /\ Rejected(r) /\ ghost[r].execCount = 0

\* C5 (as claimed): in an attempt where the validator returns invalid, the
\* state takes the validator's reason as its error together with the security
\* flag, the attempt ends, and the executor is not invoked.
C5_Original ==
    \A r \in Runs :
        Rejected(r) =>
            /\ st[r].error = validate(st[r].plan[1], GuardrailSql(st[r])).error_message
            /\ CarriesSecurityFlag(st[r], validate(st[r].plan[1], GuardrailSql(st[r])))
            /\ AttemptEnded(r)
            /\ "execute" \notin ghost[r].invoked

\* C6 (as claimed): the validator is given the rendered query text of the plan,
\* so whenever the executor has been invoked in an attempt, the text it ran
\* passed the forbidden-keyword rule and the single-statement rule.
C6_ExecutedTextWasValidated ==
    \A r \in Runs :
        ("execute" \in ghost[r].invoked /\ st[r].plan # None) =>
            /\ GuardrailSql(st[r]) = RenderSQL(st[r].plan[1])
            /\ _check_sql_safety(RenderSQL(st[r].plan[1])).is_valid
            /\ _check_multiple_statements(RenderSQL(st[r].plan[1])).is_valid

\* the call r has returned or raised
Returned(r) == pc[r] \in {"done", "raised"}
\* r takes the step that follows the return of app.invoke
AfterAttempt(r) == pc[r] = "END" /\ pc'[r] # "END"
\* r leaves a node because app.invoke raised
RaiseStep(r) == pc[r] \in GraphNodes /\ attempt'[r] = attempt[r] + 1

\* C11: run_query invokes the graph at most max_retries times; after an
\* attempt that returned with a non-empty error (of any kind) it invokes the
\* graph again, from a state whose error is empty, as long as fewer than
\* max_retries invocations were made; after an attempt that returned without
\* error it returns at once; and every call ends.
C11_BoundedRetry ==
    /\ [](\A r \in Runs : ghost[r].invocations <= max_retries[r])
    /\ [][\A r \in Runs :
            /\ AfterAttempt(r) =>
                  IF st[r].error # None /\ ghost[r].invocations < max_retries[r]
                  THEN /\ pc'[r] = "router"
                       /\ ghost'[r].invocations = ghost[r].invocations + 1
                       /\ st'[r].error = None
                  ELSE /\ pc'[r] = "done"
                       /\ ghost'[r].invocations = ghost[r].invocations
                       /\ st'[r] = st[r]
            /\ RaiseStep(r) =>
                  IF ghost[r].invocations < max_retries[r]
                  THEN /\ pc'[r] = "router"
                       /\ ghost'[r].invocations = ghost[r].invocations + 1
                       /\ st'[r].error = None
                  ELSE pc'[r] = "done" /\ st'[r].error # None]_vars
    /\ \A r \in Runs : (pc[r] # "idle") ~> Returned(r)

\* C11 witness: a call with max_retries = 2 whose first attempt ended with an
\* error and whose second attempt succeeded.
C11_Witness ==
    \E r \in Runs :
        /\ pc[r] = "done" /\ max_retries[r] = 2
        /\ ghost[r].invocations = 2 /\ attempt[r] = 1
        /\ st[r].error = None

ResponseFields == {"plan", "chart_spec", "insight", "error", "cache_hit"}

\* C12 (as claimed): whatever max_retries is (0 included) and whichever
\* collaborators fail, no exception escapes run_query, and the result it
\* returns has the members plan, chart_spec, insight, error and cache_hit.
C12_AlwaysResponds ==
    \A r \in Runs :
        /\ pc[r] # "raised"
        /\ pc[r] = "done" => DOMAIN Response(st[r]) = ResponseFields

\* the classifier failed in the current attempt of r and nothing failed after it
ClassifierFailed(r) ==
    /\ "classify" \in ghost[r].invoked
    /\ st[r].error = Some(<<"Intent classification failed">>)

RenderFailed(r) ==
    "render" \in ghost[r].invoked /\ st[r].plan # None /\ st[r].chart_spec = None
SummarizeFailed(r) ==
    "summarize" \in ghost[r].invoked /\ st[r].plan # None /\ st[r].insight = None
\* r takes a step of its own thread
Moves(r) == pc'[r] # pc[r]
\* the stage that follows a stage when nothing ends the attempt early
StageAfter(stage) ==
    CASE stage = "chart" -> "insights"
      [] stage = "insights" -> "cache_store"
      [] stage = "cache_store" -> "END"
      [] stage = "END" -> "done"
      [] OTHER -> stage

\* C14: a failure of the renderer or of the summarizer sets no error and only
\* leaves its artifact absent; the stages after it still run (the summarizer
\* after a renderer failure, then the cache store, which writes the bundle
\* when one artifact is there), and the attempt returns a response without
\* error and without a retry.
C14_ArtifactFailureIsNotFatal ==
    /\ [](\A r \in Runs :
            (RenderFailed(r) \/ SummarizeFailed(r)) =>
                /\ st[r].error = None
                /\ pc[r] \in {"insights", "cache_store", "END", "done"}
                /\ (RenderFailed(r) /\ pc[r] # "insights")
                      => "summarize" \in ghost[r].invoked
                /\ pc[r] \in {"END", "done"} =>
                      ("cache_set" \in ghost[r].invoked
                          <=> ~(RenderFailed(r) /\ SummarizeFailed(r)))
                /\ pc[r] = "done" =>
                      /\ Response(st[r]).error = None
                      /\ RenderFailed(r) => Response(st[r]).chart_spec = None
                      /\ SummarizeFailed(r) => Response(st[r]).insight = None
                      /\ ghost[r].invocations = attempt[r] + 1)
    /\ [][\A r \in Runs :
            ((RenderFailed(r) \/ SummarizeFailed(r)) /\ Moves(r) /\ ~RaiseStep(r))
                => /\ pc'[r] = StageAfter(pc[r])
                   /\ ghost'[r].invocations = ghost[r].invocations]_vars

\* C14 witness: a call returned a response with a narrative and no chart
\* after its renderer failed, and its bundle was stored.
C14_Witness ==
    \E r \in Runs :
        /\ pc[r] = "done" /\ RenderFailed(r) /\ ~SummarizeFailed(r)
        /\ "cache_set" \in ghost[r].invoked
        /\ Response(st[r]).insight # None /\ Response(st[r]).error = None

\* the executor was invoked in the current attempt of r and returned no rows object
ExecFailed(r) ==
    "execute" \in ghost[r].invoked /\ st[r].plan # None /\ st[r].df_dict = None

\* C15: when the executor fails in an attempt, the state of the attempt
\* carries an error to its end, the renderer and the summarizer are not
\* invoked in it, and no step of it writes to the cache.
C15_ExecutorFailureIsFatal ==
    /\ [](\A r \in Runs :
            ExecFailed(r) =>
                /\ st[r].error # None
                /\ pc[r] \in {"chart", "insights", "cache_store", "END", "done"}
                /\ ghost[r].invoked \cap {"render", "summarize", "cache_set"} = {}
                /\ pc[r] = "done" => Response(st[r]).error # None)
    /\ [][\A r \in Runs : (ExecFailed(r) /\ Moves(r)) => cache' = cache]_vars

\* C15 witness: a call returned the executor's error after it went through
\* the chart, insights and cache store nodes.
C15_Witness ==
    \E r \in Runs :
        /\ pc[r] = "done" /\ ExecFailed(r)
        /\ Response(st[r]).error = Some(<<"Query execution failed">>)
        /\ Response(st[r]).chart_spec = None /\ cache = <<>>

\* runs a and b overlapped: neither started after the other had returned
Concurrent(a, b) ==
    /\ a # b /\ pc[a] # "idle" /\ pc[b] # "idle"
    /\ a \notin ghost[b].startedAfter /\ b \notin ghost[a].startedAfter
\* the last attempt of r missed the cache, executed and stored its bundle
MissedAndStored(r) ==
    /\ pc[r] = "done" /\ st[r].plan # None
    /\ "cache_get" \in ghost[r].invoked /\ ~LookupHit(r) /\ ~st[r].cache_hit
    /\ "cache_set" \in ghost[r].invoked

\* C22: nothing coalesces two runs of one fingerprint: when two overlapping
\* runs of the same plan have both missed the cache and both stored, the
\* executor was invoked by each of them, and the cache holds one entry for
\* the key, the only entry there is.
C22_NoCoalescing ==
    \A a, b \in Runs :
        (Concurrent(a, b) /\ st[a].plan = st[b].plan
            /\ MissedAndStored(a) /\ MissedAndStored(b))
        => /\ ghost[a].execCount >= 1 /\ ghost[b].execCount >= 1
           /\ "execute" \in ghost[a].invoked /\ "execute" \in ghost[b].invoked
           /\ Len(cache) = 1
           /\ cache[1].key = cache_key(st[a].plan[1])

\* C22 witness: two overlapping runs of one plan, each at its first attempt,
\* both missed, both executed once, both stored; one entry is in the cache.
C22_Witness ==
    \E a, b \in Runs :
        /\ Concurrent(a, b) /\ st[a].plan = st[b].plan
        /\ MissedAndStored(a) /\ MissedAndStored(b)
        /\ attempt[a] = 0 /\ attempt[b] = 0
        /\ ghost[a].execCount = 1 /\ ghost[b].execCount = 1
        /\ Len(cache) = 1

\* the stages in the order of the graph
NodeRank(node) ==
    CASE node = "router" -> 1
      [] node \in {"memory", "planner"} -> 2
      [] node = "cache_check" -> 3
      [] node = "guardrail" -> 4
      [] node = "sql_executor" -> 5
      [] node = "chart" -> 6
      [] node = "insights" -> 7
      [] node = "cache_store" -> 8
      [] OTHER -> 9
\* the collaborators that must have run before a collaborator is invoked
StagesBefore(stage) ==
    CASE stage = "plan" -> {"classify"}
      [] stage = "cache_get" -> {"classify", "plan"}
      [] stage = "validate" -> {"classify", "plan", "cache_get"}
      [] stage = "execute" -> {"classify", "plan", "cache_get", "validate"}
      [] stage = "render" -> {"classify", "plan", "cache_get", "validate", "execute"}
      [] stage = "summarize" ->
            {"classify", "plan", "cache_get", "validate", "execute", "render"}
      [] stage = "cache_set" ->
            {"classify", "plan", "cache_get", "validate", "execute", "render",
             "summarize"}
      [] OTHER -> {}
\* r goes from one node of the graph to the next, or to the end of the graph
GraphMove(r) == pc[r] \in GraphNodes /\ Moves(r) /\ ~RaiseStep(r)

\* C26: within an attempt the nodes run in the order router, planner (or
\* memory), cache_check, guardrail, sql_executor, chart, insights,
\* cache_store, each at most once (every step goes to a later node or to the
\* end); a collaborator is invoked only after those before it in this order
\* have been, the cache lookup before validate and execute; and every
\* attempt leaves the graph.
C26_StageOrder ==
    /\ [][\A r \in Runs :
            GraphMove(r) => /\ pc'[r] \in GraphNodes \cup {"END"}
                            /\ NodeRank(pc'[r]) > NodeRank(pc[r])]_vars
    /\ [](\A r \in Runs : \A stage \in ghost[r].invoked :
            StagesBefore(stage) \subseteq ghost[r].invoked)
    /\ \A r \in Runs : \A n \in 1..(MaxRetries + 1) :
            (pc[r] \in GraphNodes /\ ghost[r].invocations = n)
                ~> (pc[r] \notin GraphNodes \/ ghost[r].invocations > n)

\* C26 witness: an attempt went through all eight stages.
C26_Witness ==
    \E r \in Runs :
        /\ pc[r] = "END"
        /\ ghost[r].invoked = {"classify", "plan", "cache_get", "validate", "execute",
                                "render", "summarize", "cache_set"}

ZeroRows(r) ==
    /\ "execute" \in ghost[r].invoked /\ st[r].plan # None
    /\ st[r].df_dict # None /\ st[r].df_dict[1].rows = 0

\* C30: when the executor returns zero rows, the renderer and the summarizer
\* are not invoked, the attempt carries no error and no artifact to its end,
\* no step of it writes to the cache, and run_query returns after it without
\* another invocation (one invocation in all when it is the first attempt).
C30_ZeroRowsEndQuietly ==
    /\ [](\A r \in Runs :
            ZeroRows(r) =>
                /\ st[r].error = None
                /\ st[r].chart_spec = None /\ st[r].insight = None
                /\ ghost[r].invoked \cap {"render", "summarize", "cache_set"} = {}
                /\ pc[r] = "done" =>
                      /\ Response(st[r]).error = None
                      /\ Response(st[r]).chart_spec = None
                      /\ Response(st[r]).insight = None
                      /\ ghost[r].invocations = attempt[r] + 1)
    /\ [][\A r \in Runs :
            (ZeroRows(r) /\ Moves(r) /\ ~RaiseStep(r))
                => /\ cache' = cache
                   /\ pc'[r] = StageAfter(pc[r])
                   /\ ghost'[r].invocations = ghost[r].invocations]_vars

\* C30 witness: a call returned, after one invocation, a response without
\* error and without artifacts, its executor having returned zero rows.
C30_Witness ==
    \E r \in Runs :
        /\ pc[r] = "done" /\ ZeroRows(r) /\ ghost[r].invocations = 1
        /\ Response(st[r]).error = None /\ ~Response(st[r]).cache_hit
        /\ cache = <<>>

(***************************************************************************)
(* Cache claims                                                            *)
(***************************************************************************)
\* the entry last stored under key (time of the set, its TTL, its logical time)
LastSetOf(key) == lastSet[key][1]
Deadline(key) == LastSetOf(key).t + LastSetOf(key).ttl
IsApiStep == opCount' = opCount + 1
LeastRecentKey(c) ==
    CHOOSE k \in CacheKeys(c) : \A j \in CacheKeys(c) : stamp[k] <= stamp[j]

\* C7: a get of a key at a time later than (time of its last set + that set's
\* TTL) returns absent, whatever get hits happened before expiry.
C7_ExpiredGetIsAbsent ==
    (lastOp.op = "get" /\ lastSet[lastOp.key] # None
        /\ lastOp.time > Deadline(lastOp.key))
    => lastOp.result = None

\* C7 witness: set, then a get hit, then (after the TTL elapsed) a get that
\* returns absent although nothing evicted or cleared the entry.
C7_Witness ==
    /\ opCount = 3
    /\ lastOp.op = "get" /\ lastOp.result = None /\ lastOp.present
    /\ lastSet[lastOp.key] # None
    /\ LastSetOf(lastOp.key).n = 1 /\ stamp[lastOp.key] = 2
    /\ LastSetOf(lastOp.key).ttl > 0
    /\ lastOp.time > Deadline(lastOp.key)

\* C8: a set of a new key into a cache holding max_size entries removes
\* exactly the entry whose last access (get hit or set) is the oldest, keeps
\* every other entry as it was, and adds the new key.
C8_EvictsLeastRecentlyUsed ==
    [][(IsApiStep /\ lastOp'.op = "set" /\ lastOp'.key \notin CacheKeys(cache)
          /\ Len(cache) = MaxSize)
       => /\ CacheKeys(cache') =
               (CacheKeys(cache) \ {LeastRecentKey(cache)}) \cup {lastOp'.key}
          /\ \A k \in CacheKeys(cache) \ {LeastRecentKey(cache)} :
               cache'[IndexOf(cache', k)] = cache[IndexOf(cache, k)]]_vars

\* C8 witness: a new key was set into a full cache and the entry evicted (j)
\* was inserted after a surviving entry (k) that had a get hit since.
C8_Witness ==
    /\ lastOp.op = "set" /\ ~lastOp.present /\ lastOp.sizeBefore = MaxSize
    /\ \E k \in CacheKeys(cache), j \in ApiKeys \ CacheKeys(cache) :
          /\ lastSet[k] # None /\ lastSet[j] # None
          /\ LastSetOf(k).n < LastSetOf(j).n
          /\ LastSetOf(k).n < stamp[k]
          /\ stamp[j] < stamp[k]

\* C9: a set of a key that is already present replaces its value and expiry,
\* puts it last in recency order, and leaves the number of entries and every
\* other entry (and their relative order) unchanged.
C9_ResetReplacesInPlace ==
    [][(IsApiStep /\ lastOp'.op = "set" /\ lastOp'.key \in CacheKeys(cache))
       => /\ Len(cache') = Len(cache)
          /\ CacheKeys(cache') = CacheKeys(cache)
          /\ cache'[Len(cache')].key = lastOp'.key
          /\ Some(DeserializeValue(cache'[Len(cache')].value)) = lastOp'.result
          /\ cache'[Len(cache')].expires_at = now + lastSet'[lastOp'.key][1].ttl
          /\ DelKey(cache', lastOp'.key) = DelKey(cache, lastOp'.key)]_vars

\* C9 witness: a key present in a full cache, and not the most recent one, was set
\* again with another expiry.
C9_Witness ==
    /\ lastOp.op = "set" /\ lastOp.present /\ lastOp.sizeBefore = MaxSize
    /\ Len(cache) = MaxSize
    /\ \E j \in CacheKeys(cache) \ {lastOp.key} :
          /\ lastSet[j] # None
          /\ stamp[j] > 1 /\ stamp[j] < stamp[lastOp.key]
          /\ cache[Len(cache)].created_at > cache[IndexOf(cache, j)].created_at

\* C10 (as amended): an entry stored with a negative TTL is absent for every
\* later get, and an entry stored with TTL = 0 is absent for every get made at
\* a clock reading strictly after the reading of the set.
C10_NonPositiveTtlExpires ==
    (lastOp.op = "get" /\ lastSet[lastOp.key] # None
        /\ LastSetOf(lastOp.key).ttl <= 0
        /\ (LastSetOf(lastOp.key).ttl < 0 \/ lastOp.time > LastSetOf(lastOp.key).t))
    => lastOp.result = None

\* C10 witness: the get that directly follows a set with TTL <= 0 finds the
\* entry still stored and returns absent.
C10_Witness ==
    /\ lastOp.op = "get" /\ lastOp.present /\ lastOp.result = None
    /\ lastSet[lastOp.key] # None
    /\ LastSetOf(lastOp.key).ttl <= 0
    /\ LastSetOf(lastOp.key).n = opCount - 1

\* C10 (as claimed): an entry stored with TTL <= 0 is absent for every get at
\* or after the time of the set, the same clock reading included.
C10_Original ==
    (lastOp.op = "get" /\ lastSet[lastOp.key] # None
        /\ LastSetOf(lastOp.key).ttl <= 0
        /\ lastOp.time >= LastSetOf(lastOp.key).t)
    => lastOp.result = None

\* the expiry time of the entry has passed at time t
Passed(entry, t) == t > entry.expires_at

Called == vresult # None
Result == vresult[1]
\* which rule rejected
RuleFired(res, message) ==
    ~res.is_valid /\ res.error_message # None /\ Head(res.error_message[1]) = message
KeywordRuleFired(res) == RuleFired(res, "SQL query contains forbidden keyword")
SeparatorRuleFired(res) ==
    RuleFired(res, "SQL query contains multiple statements (semicolons not allowed)")
SegmentRuleFired(res) == RuleFired(res, "Invalid segment value")
WindowRuleFired(res) == RuleFired(res, "Time window exceeds maximum allowed")

DenylistedWords ==
    {<<"I","N","S","E","R","T">>, <<"U","P","D","A","T","E">>,
     <<"D","E","L","E","T","E">>, <<"D","R","O","P">>, <<"A","L","T","E","R">>,
     <<"C","R","E","A","T","E">>, <<"T","R","U","N","C","A","T","E">>,
     <<"R","E","P","L","A","C","E">>, <<"M","E","R","G","E">>}
\* the same letter up to case
SameLetter(a, b) ==
    a = b \/ \E i \in 1..26 : {a, b} = {LowerAlpha[i], UpperAlpha[i]}
\* a character of an identifier: a letter, a digit or the underscore
InIdentifier(c) ==
    \/ \E i \in 1..26 : c \in {LowerAlpha[i], UpperAlpha[i]}
    \/ c \in Digits \/ c = "_"
\* word stands in text at position i, in any letter case, with no identifier
\* character next to it
OccursAsWord(text, word, i) ==
    /\ i + Len(word) - 1 <= Len(text)
    /\ \A j \in 1..Len(word) : SameLetter(text[i + j - 1], word[j])
    /\ (i > 1 => ~InIdentifier(text[i - 1]))
    /\ (i + Len(word) <= Len(text) => ~InIdentifier(text[i + Len(word)]))
HasDenylistedWord(text) ==
    \E word \in DenylistedWords : \E i \in 1..Len(text) : OccursAsWord(text, word, i)

\* C16: validate returns invalid with the security flag whenever the query
\* text holds a denylisted keyword as a whole word, in any letter case, and
\* the forbidden-keyword rule does not fire on a text that holds the keywords
\* only inside longer identifiers.
C16_KeywordRule ==
    Called =>
        /\ HasDenylistedWord(vcall.sql)
              => ~Result.is_valid /\ Result.security_event
        /\ ~HasDenylistedWord(vcall.sql) => ~KeywordRuleFired(Result)

\* C16 witness: the text "x Drop t" was rejected as a security event.
C16_Witness ==
    /\ Called /\ vcall.sql = <<"x", " ", "D", "r", "o", "p", " ", "t">>
    /\ KeywordRuleFired(Result) /\ Result.security_event

\* the text holds no separator, or one separator followed by whitespace only
SingleStatement(text) ==
    LET at == {i \in 1..Len(text) : text[i] = ";"}
    IN  \/ at = {}
        \/ /\ Cardinality(at) = 1
           /\ \A i \in at : \A j \in (i + 1)..Len(text) : text[j] \in Whitespace

\* C17: validate rejects, with the security flag, every text in which a
\* separator stands anywhere but as one trailing terminator (two trailing
\* separators included), and the single-statement rule does not fire on a
\* text with no separator or with one trailing separator, followed by
\* whitespace or not.
C17_SeparatorRule ==
    Called =>
        /\ ~SingleStatement(vcall.sql)
              => ~Result.is_valid /\ Result.security_event
        /\ SingleStatement(vcall.sql) => ~SeparatorRuleFired(Result)

\* C17 witness: the text "a;;" was rejected as a security event.
C17_Witness ==
    /\ Called /\ vcall.sql = <<"a", ";", ";">>
    /\ SeparatorRuleFired(Result) /\ Result.security_event

\* the text passes the two text rules
TextAccepted(text) == ~HasDenylistedWord(text) /\ SingleStatement(text)
RecognizedWindows == {"last_7d", "last_full_week", "last_30d", "last_full_month",
                      "last_3_full_months"}
Segment(f) == vcall.plan.segments[f]
\* the fields in which "ALL" asks for grouping
SentinelFields == {"channel", "grade", "prod_type"}
\* as claimed: "ALL" or a member, for every field (term holds integers)
SentinelOrMember(f, v) ==
    IF f = "term" THEN v \in ALLOWED_SEGMENTS[f]
    ELSE v = "ALL" \/ v \in ALLOWED_SEGMENTS[f]
\* as the code has it: a member, or "ALL" in a field that takes the sentinel
AcceptedValue(f, v) ==
    v \in ALLOWED_SEGMENTS[f] \/ (f \in SentinelFields /\ v = "ALL")

FieldOrder == <<"channel", "grade", "prod_type", "repeat_type", "term",
                "cr_fico_band", "purpose">>
\* the first field, in the order of the scan, that satisfies Is
FirstField(Is(_)) ==
    FieldOrder[CHOOSE i \in 1..7 : Is(FieldOrder[i]) /\ \A j \in 1..(i - 1) : ~Is(FieldOrder[j])]
\* the result is a rejection of the segment rule, not a security event, that names f
NamesField(res, f) ==
    SegmentRuleFired(res) /\ ~res.security_event /\ res.error_message[1][2] = f
\* an empty text or a term of 0
Blank(f, v) == IF f = "term" THEN v = 0 ELSE v = ""
\* as claimed: populated means not absent
OffendingAsClaimed(f) ==
    Segment(f) # None /\ ~SentinelOrMember(f, Segment(f)[1])
\* as the code has it: populated means neither absent nor blank
Offending(f) ==
    Segment(f) # None /\ ~Blank(f, Segment(f)[1]) /\ ~AcceptedValue(f, Segment(f)[1])

ClaimedDays(window) ==
    CASE window \in {"last_7d", "last_full_week"} -> 7
      [] window = "last_30d" -> 30
      [] window = "last_full_month" -> 31
      [] window = "last_3_full_months" -> 93
      [] OTHER -> 30

\* C20: on a text and segments the other rules accept, validate rejects the
\* plan exactly when the day count of its window code (30 for a code that is
\* not recognized) exceeds 365, and such a rejection is no security event.
C20_WindowRule ==
    (Called /\ TextAccepted(vcall.sql) /\ ~\E f \in SegmentFields : Offending(f)) =>
        /\ ~Result.is_valid <=> ClaimedDays(vcall.plan.window) > 365
        /\ ~Result.is_valid => WindowRuleFired(Result) /\ ~Result.security_event
        /\ WindowDays(vcall.plan.window) = ClaimedDays(vcall.plan.window)

\* C20 witness: a plan with the unrecognized window code "last_year" was accepted.
C20_Witness ==
    /\ Called /\ vcall.plan.window = "last_year"
    /\ vcall.sql = SafeText /\ Result.is_valid

\* C27: validate applies the forbidden-keyword rule, the single-statement
\* rule, the segment rule and the window rule in this order and returns the
\* result of the first that fails (security-flagged for the two text rules,
\* not for the two plan rules); it returns valid, with no reason and no
\* security flag, only when all four pass.
C27_RuleOrder ==
    Called =>
        IF HasDenylistedWord(vcall.sql)
        THEN KeywordRuleFired(Result) /\ Result.security_event
        ELSE IF ~SingleStatement(vcall.sql)
        THEN SeparatorRuleFired(Result) /\ Result.security_event
        ELSE IF \E f \in SegmentFields : Offending(f)
        THEN SegmentRuleFired(Result) /\ ~Result.security_event
        ELSE IF ClaimedDays(vcall.plan.window) > 365
        THEN WindowRuleFired(Result) /\ ~Result.security_event
        ELSE /\ Result.is_valid /\ Result.error_message = None
             /\ ~Result.security_event

\* C27 witness: the text "drop;a" with a plan whose channel is out of the
\* set was rejected by the keyword rule, as a security event.
C27_Witness ==
    /\ Called /\ vcall.sql = <<"d", "r", "o", "p", ";", "a">>
    /\ vcall.plan = PlanBadSegment
    /\ KeywordRuleFired(Result) /\ Result.security_event

(***************************************************************************)
(* Fingerprint claims                                                      *)
(***************************************************************************)
KeysTaken == kresult # None
\* the set of segment entries a constructor call supplied
EntrySet(args) == {args.entries[i] : i \in 1..Len(args.entries)}
\* the two Plans have the same value in every field
SameFieldValues ==
    /\ kcall[1].base = kcall[2].base
    /\ EntrySet(kcall[1]) = EntrySet(kcall[2])

Instances == 1..Len(objs)
\* the threads inside a `with self._lock:` block of instance i
Inside(i) == {t \in Threads : th[t].pc \in LockedPcs /\ th[t].inst = i}
\* thread t has run every statement of its method and still holds the lock
AtReturn(t) == th[t].pc = "release"

\* the cache and the value the operation of thread t gives when it runs alone
\* on the cache it found when it took the lock
AtomicCache(t) ==
    CASE th[t].op = "get" -> GetCache(th[t].before, th[t].key, th[t].time)
      [] th[t].op = "set" ->
            SetCache(th[t].before, th[t].key, ThreadValue(t), th[t].ttl, th[t].time)
      [] th[t].op = "clear" -> ClearCache(th[t].before)
      [] th[t].op = "size" -> th[t].before
      [] th[t].op = "cleanup_expired" -> CleanupCache(th[t].before, th[t].time)
AtomicResult(t) ==
    CASE th[t].op = "get" -> GetResult(th[t].before, th[t].key, th[t].time)
      [] th[t].op = "size" -> Some(SizeResult(th[t].before))
      [] th[t].op = "cleanup_expired" -> Some(CleanupResult(th[t].before, th[t].time))
      [] OTHER -> None

\* C23: every cache operation (get, set, clear, size, cleanup_expired) runs
\* entirely under the one lock of its cache: at most one thread is inside an
\* operation of an instance and it holds the lock; whatever the interleaving,
\* an operation leaves the cache and returns the value it would running alone
\* on the cache it found (so the operations take effect in the order in which
\* they took the lock); and a thread in a collaborator call holds no lock.
C23_OperationsAtomic ==
    /\ \A i \in Instances :
        /\ Cardinality(Inside(i)) <= 1
        /\ \A t \in Inside(i) : objs[i].lock = t
        /\ Inside(i) = {} => objs[i].lock = "free"
    /\ \A t \in Threads :
        AtReturn(t) => /\ OwnCache(t) = AtomicCache(t)
                       /\ th[t].result = AtomicResult(t)
    /\ \A t \in Threads :
        th[t].pc = "collaborator" => \A i \in Instances : objs[i].lock # t

\* a set of a key already stored has deleted the old entry and not yet added
\* the new one, while the other thread waits for the lock of the same instance
C23_Witness ==
    \E t, u \in Threads :
        /\ t # u
        /\ th[t].pc = "set_add"
        /\ th[t].key \in CacheKeys(th[t].before)
        /\ th[t].key \notin CacheKeys(OwnCache(t))
        /\ th[u].pc = "acquire"
        /\ th[u].inst = th[t].inst

\* C24: get_cache() gives every caller the same instance: only one cache
\* instance is ever created, also when the first calls of several threads
\* interleave, so the module-level set and get of different runs work on the
\* same cache.
C24_SingleInstance ==
    /\ Len(objs) <= 1
    /\ \A t, u \in Threads :
        th[t].inst # 0 /\ th[u].inst # 0 => th[t].inst = th[u].inst

\* C28: with max_size >= 1, whatever get, set, clear and cleanup_expired
\* calls the threads make, no key occurs twice in a cache, a cache holds at
\* most max_size entries whenever its lock is free, size() never returns more
\* than max_size, and a set stores its key and removes at most one other key.
C28_SizeBounded ==
    /\ \A i \in Instances :
        /\ Cardinality(CacheKeys(objs[i].cache)) = Len(objs[i].cache)
        /\ objs[i].lock = "free" => Len(objs[i].cache) <= MaxSize
    /\ \A t \in Threads :
        AtReturn(t) /\ th[t].op = "size" => th[t].result[1] <= MaxSize
    /\ \A t \in Threads :
        AtReturn(t) /\ th[t].op = "set" =>
            /\ th[t].key \in CacheKeys(OwnCache(t))
            /\ Cardinality(CacheKeys(th[t].before) \ CacheKeys(OwnCache(t))) <= 1

\* a set of a new key into a full cache has removed exactly one other key
C28_Witness ==
    \E t \in Threads :
        /\ AtReturn(t)
        /\ th[t].op = "set"
        /\ Len(th[t].before) = MaxSize
        /\ th[t].key \notin CacheKeys(th[t].before)
        /\ Len(OwnCache(t)) = MaxSize
        /\ Cardinality(CacheKeys(th[t].before) \ CacheKeys(OwnCache(t))) = 1

=============================================================================
